---- MODULE Spec2Model ----
(***************************************************************************)
(* Identity & access control of the attendance backend: account            *)
(* provisioning (AuthService.register, StudentsService, TeachersService)   *)
(* over the relational store, token issue, login and the guard chain.      *)
(*                                                                         *)
(* Every handler is split at its awaits on the store, so that calls of     *)
(* different requests interleave exactly where the code yields.  Writes    *)
(* made inside prisma.$transaction are held in tx[p] and reach the tables  *)
(* only at commit; every read of another call sees committed rows only.    *)
(* fullName, createdAt and updatedAt are carried by no decision of the     *)
(* code and are left out of the rows.                                      *)
(***************************************************************************)
EXTENDS Integers, FiniteSets, Sequences, TLC

\* ---- bounds ------------------------------------------------------------
MaxCalls == 2          \* calls started in one behaviour
MaxTime == 3           \* clock ticks in one behaviour
MaxPasswordLen == 8    \* characters of a password under validation

\* ---- program constants -------------------------------------------------
TokenLifetime == 2     \* JWT_EXPIRES_IN (24h), in clock ticks of 12h
MinLength == 8         \* @MinLength(8) of RegisterDto.password

Procs == {1, 2}
Roles == {"STUDENT", "TEACHER", "ADMIN"}
NoCode == "none"       \* studentCode absent from the body
NoClass == "none"      \* classroomId absent from the body
NoId == 0              \* the id of no row
NoSubject == "none"    \* subjectId absent from the body

VARIABLES
  users,        \* table users: [id, email, password, role]
  students,     \* table students: [id, userId, studentCode, classroomId]
  teachers,     \* table teachers: [id, userId]
  classrooms,   \* table classrooms: set of ids
  subjects,     \* table subjects: set of ids
  assignments,  \* table teaching_assignments: [id, teacherId, subjectId, classroomId]
  nextId,       \* next fresh uuid
  tx,           \* per call: uncommitted writes of its open transaction
  pc,           \* per call: position in the handler
  op,           \* per call: which handler runs
  arg,          \* per call: the request body / parameters
  loc,          \* per call: local variables of the handler
  res,          \* per call: the response
  tokens,       \* tokens signed so far
  now,          \* clock
  calls,        \* calls started so far
  hist,         \* per call: bookkeeping for the properties (never read by the code)
  req,          \* the request travelling through the guard chain
  boot,         \* the process: its JWT_SECRET, its state, the strategy's key
  dto           \* the register body at the ValidationPipe

vars == <<users, students, teachers, classrooms, subjects, assignments, nextId, tx, pc,
          op, arg, loc, res, tokens, now, calls, hist, req, boot, dto>>

tables == <<users, students, teachers, classrooms, subjects, assignments>>

\* what no request handler writes: the started process and the body under
\* validation
edge == <<boot, dto>>

\* ---- values ------------------------------------------------------------
EmptyTx == [users |-> {}, students |-> {}, teachers |-> {},
            delStudents |-> {}, delTeachers |-> {}, delUsers |-> {}]

NoArg == [email |-> "none", password |-> "none", role |-> "none",
          studentCode |-> NoCode, classroomId |-> NoClass, id |-> NoId,
          teacherId |-> NoId, subjectId |-> NoSubject]

NoAssignment == [id |-> NoId, teacherId |-> NoId, subjectId |-> NoSubject,
                 classroomId |-> NoClass]

NoUser == [id |-> NoId, email |-> "none", password |-> [bcrypt |-> "none"],
           role |-> "none"]

NoPrincipal == [id |-> NoId, email |-> "none", role |-> "none"]

\* principal is request.user as LocalStrategy attached it; existing is the
\* existingAssignment TeachingAssignmentsService.update has read
NoLoc == [userId |-> NoId, user |-> NoUser, principal |-> NoPrincipal,
          existing |-> NoAssignment]

NoToken == [sub |-> NoId, email |-> "none", role |-> "none", iat |-> 0, exp |-> 0]

NoHeader == [kind |-> "none", token |-> NoToken]

NoRes == [status |-> 0, message |-> "none", token |-> NoToken,
          user |-> NoPrincipal]

\* handled, observed and response are written by the route's handler;
\* refreshed is bookkeeping for the properties: the pairs <<presented token,
\* token returned>> of the refreshes so far
NoReq == [state |-> "none", route |-> "none", header |-> NoHeader,
          principal |-> NoPrincipal, authTime |-> 0, stale |-> FALSE,
          subjectGone |-> FALSE, storeRole |-> "none",
          tokenInspected |-> FALSE, roleChecked |-> FALSE,
          handlerInvoked |-> FALSE, handled |-> FALSE, observed |-> NoId,
          response |-> NoRes, refreshed |-> {}]

\* the process as the deployment starts it: JWT_SECRET set in .env
Booted == [JWT_SECRET |-> "configured", state |-> "running",
           secretOrKey |-> "configured"]

NoDto == [password |-> <<>>, stage |-> "none", accepted |-> FALSE]

NoHist == [conc |-> {}, fault |-> FALSE, fresh |-> FALSE,
           created |-> [users |-> {}, students |-> {}, teachers |-> {}],
           wrote |-> FALSE, stage |-> "none", known |-> FALSE]

Active(p) == pc[p] \notin {"idle", "done"}

\* bcrypt.hash / bcrypt.compare: the digest is not the plaintext, and
\* compare succeeds exactly on the plaintext that was hashed
hashPassword(password) == [bcrypt |-> password]

\* bcrypt.compare that accepts any password
comparePasswords_Any(plain, hashed) == TRUE

comparePasswords(plain, hashed) == hashed.bcrypt = plain

\* ---- reads of committed rows ---------------------------------------------
\* prisma.user.findUnique({where: {email}}) found a row
EmailTaken(email) == \E u \in users : u.email = email

\* prisma.student.findUnique({where: {studentCode}}) found a row; with
\* except, findFirst({studentCode, id: {not: except}})
CodeTaken(code, except) ==
  \E s \in students : s.studentCode = code /\ s.id # except

\* prisma.classroom.findUnique({where: {id}}) found a row
ClassroomExists(cid) == cid \in classrooms

\* ---- the store's constraints (migration SQL) ----------------------------
\* CREATE UNIQUE INDEX "users_email_key": the insert would violate it
users_email_key(email) == \E u \in users : u.email = email

\* the schema without the unique index on student_code
students_student_code_key_Missing(code, except) == FALSE

\* CREATE UNIQUE INDEX "students_student_code_key": the insert, or the
\* update of row except, would violate it
students_student_code_key(code, except) ==
  \E s \in students : s.studentCode = code /\ s.id # except

\* CONSTRAINT "students_classroom_id_fkey": the row would violate it
students_classroom_id_fkey(cid) == cid \notin classrooms

\* CREATE UNIQUE INDEX "teaching_assignments_teacher_id_subject_id_classroom_id_key":
\* the insert of the triple of a, or the update of row except to it, would
\* violate it
teaching_assignments_teacher_id_subject_id_classroom_id_key(a, except) ==
  \E b \in assignments :
    /\ b.teacherId = a.teacherId /\ b.subjectId = a.subjectId
    /\ b.classroomId = a.classroomId /\ b.id # except

\* CONSTRAINT "teaching_assignments_teacher_id_fkey", "..._subject_id_fkey",
\* "..._classroom_id_fkey": the row a would violate one of them
teaching_assignments_fkeys(a) ==
  \/ ~\E x \in teachers : x.id = a.teacherId
  \/ a.subjectId \notin subjects
  \/ a.classroomId \notin classrooms

\* students_classroom_id_fkey not enforced when a classroom is deleted
students_classroom_id_fkey_RESTRICT_Unenforced(cid) == FALSE

\* ON DELETE RESTRICT of "students_classroom_id_fkey": the delete of the
\* classroom would violate it
students_classroom_id_fkey_RESTRICT(cid) ==
  \E s \in students : s.classroomId = cid

\* an uncommitted insert of another transaction holds the unique index
\* entry: the statement waits until that transaction ends
EmailLocked(p, email) ==
  \E q \in Procs \ {p} : \E u \in tx[q].users : u.email = email

CodeLocked(p, code) ==
  \E q \in Procs \ {p} : \E s \in tx[q].students : s.studentCode = code

StudentRowLocked(p, id) == \E q \in Procs \ {p} : id \in tx[q].delStudents

TeacherRowLocked(p, id) == \E q \in Procs \ {p} : id \in tx[q].delTeachers

UserRowLocked(p, id) == \E q \in Procs \ {p} : id \in tx[q].delUsers

\* an uncommitted insert of a student holds a key share lock on the row of
\* its classroom: the delete of the classroom waits until that transaction
\* ends
ClassroomRowLocked(p, cid) ==
  \E q \in Procs \ {p} : \E s \in tx[q].students : s.classroomId = cid

\* ---- bookkeeping ---------------------------------------------------------
\* the call of p ends with this response, user being the identity summary
\* of its body
FinishWith(p, status, message, token, user) ==
  /\ pc' = [pc EXCEPT ![p] = "done"]
  /\ res' = [res EXCEPT ![p] = [status |-> status, message |-> message,
                                token |-> token, user |-> user]]

\* the call of p ends with a response that carries no identity
Finish(p, status, message, token) ==
  FinishWith(p, status, message, token, NoPrincipal)

\* p starts a call: the calls in flight and p have run concurrently
BeginHist(p, fresh) ==
  hist' = [q \in Procs |->
             IF q = p
               THEN [NoHist EXCEPT !.conc = {r \in Procs \ {p} : Active(r)},
                                   !.fresh = fresh]
               ELSE IF Active(q)
                      THEN [hist[q] EXCEPT !.conc = @ \cup {p}]
                      ELSE hist[q]]

BeginCall(p, o, a, first, fresh) ==
  /\ ~Active(p)
  /\ \A q \in Procs : q < p => Active(q)   \* a new call takes the first free slot
  /\ calls < MaxCalls
  /\ calls' = calls + 1
  /\ op' = [op EXCEPT ![p] = o]
  /\ arg' = [arg EXCEPT ![p] = a]
  /\ loc' = [loc EXCEPT ![p] = NoLoc]
  /\ res' = [res EXCEPT ![p] = NoRes]
  /\ pc' = [pc EXCEPT ![p] = first]
  /\ BeginHist(p, fresh)
  /\ UNCHANGED <<tables, nextId, tx, tokens, now, edge, req>>

\* ---- transactions --------------------------------------------------------
\* prisma.$transaction commits: the pending rows reach the tables; deleting
\* a user cascades to its profile rows (students_user_id_fkey,
\* teachers_user_id_fkey) and deleting a teacher to its assignments
CommitTables(p) ==
  LET t == tx[p]
      goneTeachers == t.delTeachers \cup
                      {x.id : x \in {y \in teachers : y.userId \in t.delUsers}}
  IN
  /\ users' = {u \in users : u.id \notin t.delUsers} \cup t.users
  /\ students' = {s \in students : s.id \notin t.delStudents
                                   /\ s.userId \notin t.delUsers}
                 \cup t.students
  /\ teachers' = {x \in teachers : x.id \notin goneTeachers} \cup t.teachers
  /\ assignments' = {a \in assignments : a.teacherId \notin goneTeachers}
  /\ UNCHANGED <<classrooms, subjects>>
  /\ tx' = [tx EXCEPT ![p] = EmptyTx]
  /\ hist' = [hist EXCEPT ![p].wrote = TRUE,
                          ![p].created =
                             [users |-> {u.id : u \in t.users},
                              students |-> {s.id : s \in t.students},
                              teachers |-> {x.id : x \in t.teachers}]]

\* a statement inside the transaction throws: everything pending is rolled
\* back and the handler's catch answers 400
Rollback(p, message) ==
  /\ tx' = [tx EXCEPT ![p] = EmptyTx]
  /\ Finish(p, 400, message, NoToken)

FailureMessage(o) ==
  CASE o = "register" -> "Registration failed. Please try again."
    [] o = "sCreate" -> "Failed to create student. Please try again."
    [] o = "tCreate" -> "Failed to create teacher. Please try again."
    [] o = "sRemove" -> "Failed to delete student. Please try again."
    [] o = "tRemove" -> "Failed to delete teacher. Please try again."
    [] o = "aCreate" -> "Failed to create teaching assignment. Please try again."
    [] o = "jRemove" -> "Failed to delete subject. Please try again."
    [] o = "cRemove" -> "Failed to delete classroom. Please try again."
    [] OTHER -> "none"

TxPcs == {"tx_user", "tx_student", "tx_teacher", "tx_commit",
          "tx_delStudent", "tx_delTeacher", "tx_delUser"}

\* the store fails a statement of an open transaction (connection lost,
\* timeout): the transaction aborts at that write
TxFault(p) ==
  /\ pc[p] \in TxPcs
  /\ Rollback(p, FailureMessage(op[p]))
  /\ hist' = [hist EXCEPT ![p].fault = TRUE]
  /\ UNCHANGED <<tables, nextId, op, arg, loc, tokens, now, edge, calls, req>>

\* the profile chosen by the fields of the body instead of by the role
ProfileStep_ByStudentCode(a) ==
  IF a.studentCode # NoCode /\ a.classroomId # NoClass THEN "tx_student"
  ELSE IF a.role = "TEACHER" THEN "tx_teacher"
  ELSE "tx_commit"

\* the statement that follows tx.user.create: the profile of the role
ProfileStep(a) ==
  CASE a.role = "STUDENT" -> "tx_student"
    [] a.role = "TEACHER" -> "tx_teacher"
    [] OTHER -> "tx_commit"

\* the user created on this.prisma instead of on tx: committed at once
TxCreateUser_NoTransaction(p) ==
  /\ pc[p] = "tx_user"
  /\ ~EmailLocked(p, arg[p].email)
  /\ IF users_email_key(arg[p].email)
       THEN /\ Rollback(p, FailureMessage(op[p]))
            /\ UNCHANGED <<nextId, loc, users>>
       ELSE /\ users' = users \cup
                        {[id |-> nextId, email |-> arg[p].email,
                          password |-> hashPassword(arg[p].password),
                          role |-> arg[p].role]}
            /\ nextId' = nextId + 1
            /\ loc' = [loc EXCEPT ![p].userId = nextId,
                                  ![p].user =
                                     [id |-> nextId, email |-> arg[p].email,
                                      password |-> hashPassword(arg[p].password),
                                      role |-> arg[p].role]]
            /\ pc' = [pc EXCEPT ![p] = ProfileStep(arg[p])]
            /\ UNCHANGED <<res, tx>>
  /\ UNCHANGED <<students, teachers, classrooms, subjects, assignments, op, arg,
                 tokens, now, edge, calls, hist, req>>

\* tx.user.create of register / StudentsService.create / TeachersService.create
TxCreateUser(p) ==
  /\ pc[p] = "tx_user"
  /\ ~EmailLocked(p, arg[p].email)
  /\ IF users_email_key(arg[p].email)
       THEN /\ Rollback(p, FailureMessage(op[p]))
            /\ UNCHANGED <<nextId, loc>>
       ELSE /\ tx' = [tx EXCEPT ![p].users =
                        {[id |-> nextId, email |-> arg[p].email,
                          password |-> hashPassword(arg[p].password),
                          role |-> arg[p].role]}]
            /\ nextId' = nextId + 1
            /\ loc' = [loc EXCEPT ![p].userId = nextId,
                                  ![p].user =
                                     [id |-> nextId, email |-> arg[p].email,
                                      password |-> hashPassword(arg[p].password),
                                      role |-> arg[p].role]]
            /\ pc' = [pc EXCEPT ![p] = ProfileStep(arg[p])]
            /\ UNCHANGED res
  /\ UNCHANGED <<tables, op, arg, tokens, now, edge, calls, hist, req>>

\* tx.student.create
TxCreateStudent(p) ==
  /\ pc[p] = "tx_student"
  /\ ~CodeLocked(p, arg[p].studentCode)
  /\ IF \/ students_student_code_key(arg[p].studentCode, NoId)
        \/ students_classroom_id_fkey(arg[p].classroomId)
       THEN /\ Rollback(p, FailureMessage(op[p]))
            /\ UNCHANGED nextId
       ELSE /\ tx' = [tx EXCEPT ![p].students =
                        {[id |-> nextId, userId |-> loc[p].userId,
                          studentCode |-> arg[p].studentCode,
                          classroomId |-> arg[p].classroomId]}]
            /\ nextId' = nextId + 1
            /\ pc' = [pc EXCEPT ![p] = "tx_commit"]
            /\ UNCHANGED res
  /\ UNCHANGED <<tables, op, arg, loc, tokens, now, edge, calls, hist, req>>

\* tx.teacher.create
TxCreateTeacher(p) ==
  /\ pc[p] = "tx_teacher"
  /\ tx' = [tx EXCEPT ![p].teachers = {[id |-> nextId, userId |-> loc[p].userId]}]
  /\ nextId' = nextId + 1
  /\ pc' = [pc EXCEPT ![p] = "tx_commit"]
  /\ UNCHANGED <<tables, op, arg, loc, res, tokens, now, edge, calls, hist, req>>

\* the transaction callback has returned: commit
TxCommit(p) ==
  /\ pc[p] = "tx_commit"
  /\ CommitTables(p)
  /\ IF op[p] = "register"
       THEN pc' = [pc EXCEPT ![p] = "r_sign"] /\ UNCHANGED res
       ELSE Finish(p, IF op[p] \in {"sCreate", "tCreate"} THEN 201 ELSE 200,
                   "ok", NoToken)
  /\ UNCHANGED <<nextId, op, arg, loc, tokens, now, edge, calls, req>>

\* ---- AuthService ---------------------------------------------------------
\* the payload built without the role
generateToken_RoleDropped(userId, email, role) ==
  [sub |-> userId, email |-> email, role |-> "none",
   iat |-> now, exp |-> now + TokenLifetime]

\* jwtService.signAsync(payload): sub, email and role of the identity,
\* issued now, expiring one lifetime later
generateToken(userId, email, role) ==
  [sub |-> userId, email |-> email, role |-> role,
   iat |-> now, exp |-> now + TokenLifetime]

\* POST /auth/register with a body that passed RegisterDto validation
RegisterBegin(p, bodies) ==
  \E b \in bodies :
    BeginCall(p, "register",
              [NoArg EXCEPT !.email = b[1], !.password = b[2], !.role = b[3],
                            !.studentCode = b[4], !.classroomId = b[5]],
              "r_email", ~EmailTaken(b[1]))

\* register without the check that classroomId is present
RegisterCheckEmail_NoClassroomCheck(p) ==
  /\ pc[p] = "r_email"
  /\ IF EmailTaken(arg[p].email)
       THEN Finish(p, 409, "User with this email already exists", NoToken)
       ELSE IF arg[p].role = "STUDENT"
         THEN IF arg[p].studentCode = NoCode
                THEN Finish(p, 400,
                       "Student code is required for student registration",
                       NoToken)
                ELSE pc' = [pc EXCEPT ![p] = "r_code"] /\ UNCHANGED res
         ELSE pc' = [pc EXCEPT ![p] = "tx_user"] /\ UNCHANGED res
  /\ UNCHANGED <<tables, nextId, tx, op, arg, loc, tokens, now, edge, calls, hist, req>>

\* register: user.findUnique({email}), then the checks that need no read
RegisterCheckEmail(p) ==
  /\ pc[p] = "r_email"
  /\ IF EmailTaken(arg[p].email)
       THEN Finish(p, 409, "User with this email already exists", NoToken)
       ELSE IF arg[p].role = "STUDENT"
         THEN IF arg[p].studentCode = NoCode
                THEN Finish(p, 400,
                       "Student code is required for student registration",
                       NoToken)
                ELSE IF arg[p].classroomId = NoClass
                  THEN Finish(p, 400,
                         "Classroom ID is required for student registration",
                         NoToken)
                  ELSE pc' = [pc EXCEPT ![p] = "r_code"] /\ UNCHANGED res
         ELSE pc' = [pc EXCEPT ![p] = "tx_user"] /\ UNCHANGED res
  /\ UNCHANGED <<tables, nextId, tx, op, arg, loc, tokens, now, edge, calls, hist, req>>

\* the classroom looked up before the student code
RegisterCheckCode_ClassroomFirst(p) ==
  /\ pc[p] = "r_code"
  /\ IF ~ClassroomExists(arg[p].classroomId)
       THEN Finish(p, 400, "Classroom not found", NoToken)
       ELSE IF CodeTaken(arg[p].studentCode, NoId)
         THEN Finish(p, 409, "Student with this student code already exists",
                     NoToken)
         ELSE pc' = [pc EXCEPT ![p] = "r_class"] /\ UNCHANGED res
  /\ UNCHANGED <<tables, nextId, tx, op, arg, loc, tokens, now, edge, calls, hist, req>>

\* register: student.findUnique({studentCode})
RegisterCheckCode(p) ==
  /\ pc[p] = "r_code"
  /\ IF CodeTaken(arg[p].studentCode, NoId)
       THEN Finish(p, 409, "Student with this student code already exists",
                   NoToken)
       ELSE pc' = [pc EXCEPT ![p] = "r_class"] /\ UNCHANGED res
  /\ UNCHANGED <<tables, nextId, tx, op, arg, loc, tokens, now, edge, calls, hist, req>>

\* the classroom looked up only after the user row was written
RegisterCheckClassroom_AfterWrite(p) ==
  /\ pc[p] = "r_class"
  /\ IF ~ClassroomExists(arg[p].classroomId)
       THEN /\ Finish(p, 400, "Classroom not found", NoToken)
            /\ users' = users \cup
                        {[id |-> nextId, email |-> arg[p].email,
                          password |-> hashPassword(arg[p].password),
                          role |-> arg[p].role]}
            /\ nextId' = nextId + 1
       ELSE /\ pc' = [pc EXCEPT ![p] = "tx_user"]
            /\ UNCHANGED <<res, users, nextId>>
  /\ UNCHANGED <<students, teachers, classrooms, subjects, assignments, tx, op,
                 arg, loc, tokens, now, edge, calls, hist, req>>

\* register: classroom.findUnique({id: classroomId})
RegisterCheckClassroom(p) ==
  /\ pc[p] = "r_class"
  /\ IF ~ClassroomExists(arg[p].classroomId)
       THEN Finish(p, 400, "Classroom not found", NoToken)
       ELSE pc' = [pc EXCEPT ![p] = "tx_user"] /\ UNCHANGED res
  /\ UNCHANGED <<tables, nextId, tx, op, arg, loc, tokens, now, edge, calls, hist, req>>

\* the positions of register at a lookup outside its try block
LookupPcs == {"r_email", "r_code", "r_class"}

\* the store fails a lookup of register (connection lost, timeout): the
\* findUnique calls run before the try block, so what prisma throws leaves
\* register as it is and reaches the caller as 500
RegisterLookupFault(p) ==
  /\ op[p] = "register" /\ pc[p] \in LookupPcs
  /\ Finish(p, 500, "Internal server error", NoToken)
  /\ hist' = [hist EXCEPT ![p].fault = TRUE]
  /\ UNCHANGED <<tables, nextId, tx, op, arg, loc, tokens, now, edge, calls, req>>

\* sanitizeUser returns the row as it is
sanitizeUser_Whole(user) == user

\* sanitizeUser: id, email and role of the row (createdAt is not modelled)
sanitizeUser(user) == [id |-> user.id, email |-> user.email, role |-> user.role]

\* register: generateToken for the row the transaction returned, after the
\* commit and inside the same try block; the response carries the token and
\* sanitizeUser(user)
RegisterSign(p) ==
  /\ pc[p] = "r_sign"
  /\ LET user == loc[p].user
         t == generateToken(user.id, user.email, user.role)
     IN
     \/ /\ tokens' = tokens \cup {t}
        /\ FinishWith(p, 201, "ok", t, sanitizeUser(user))
        /\ UNCHANGED hist
     \/ /\ Finish(p, 400, FailureMessage("register"), NoToken)
        /\ hist' = [hist EXCEPT ![p].fault = TRUE]
        /\ UNCHANGED tokens
  /\ UNCHANGED <<tables, nextId, tx, op, arg, loc, now, edge, calls, req>>

\* const { password: _, ...result } = user
WithoutPassword(user) ==
  [f \in DOMAIN user \ {"password"} |-> user[f]]

\* validateUser: the identity of the email when the password matches its
\* hash, without the password field; null otherwise
validateUser(email, password) ==
  LET found == {u \in users : u.email = email} IN
  IF found = {} THEN NoPrincipal
  ELSE LET user == CHOOSE u \in found : TRUE IN
       IF ~comparePasswords(password, user.password) THEN NoPrincipal
       ELSE WithoutPassword(user)

\* POST /auth/login; "" is a field that is empty or absent
LoginBegin(p, bodies) ==
  \E b \in bodies :
    BeginCall(p, "login", [NoArg EXCEPT !.email = b[1], !.password = b[2]],
              "l_guard", FALSE)

\* LocalAuthGuard runs before the pipes of the route: passport-local fails
\* the request when the email or the password is missing, which the guard
\* answers 401, and hands the two fields to LocalStrategy.validate otherwise
LocalAuthGuard(p) ==
  /\ pc[p] = "l_guard"
  /\ IF arg[p].email = "" \/ arg[p].password = ""
       THEN Finish(p, 401, "Unauthorized", NoToken)
       ELSE pc' = [pc EXCEPT ![p] = "l_local"] /\ UNCHANGED res
  /\ UNCHANGED <<tables, nextId, tx, op, arg, loc, tokens, now, edge, calls, hist,
                 req>>

\* the strings that are well-formed addresses
WellFormedEmails == {"e0", "e1", "e2", "t0"}

\* @IsEmail() of class-validator
IsEmail(email) == email \in WellFormedEmails

\* LoginDto under the ValidationPipe of @Body: email @IsEmail @IsNotEmpty,
\* password @IsString @IsNotEmpty
LoginDtoValid(a) == IsEmail(a.email) /\ a.email # "" /\ a.password # ""

\* the ValidationPipe of the login route, after the guard has admitted
LoginValidationPipe(p) ==
  /\ pc[p] = "l_pipe"
  /\ IF ~LoginDtoValid(arg[p])
       THEN Finish(p, 400, "Bad Request", NoToken)
       ELSE pc' = [pc EXCEPT ![p] = "l_login"] /\ UNCHANGED res
  /\ UNCHANGED <<tables, nextId, tx, op, arg, loc, tokens, now, edge, calls, hist,
                 req>>

\* the strategy tells a caller which of the two checks failed
LocalStrategyValidate_TellsWhich(p) ==
  /\ pc[p] = "l_local"
  /\ hist' = [hist EXCEPT ![p].known = EmailTaken(arg[p].email),
                          ![p].stage = "local"]
  /\ loc' = [loc EXCEPT ![p].principal =
                          validateUser(arg[p].email, arg[p].password)]
  /\ IF ~EmailTaken(arg[p].email)
       THEN Finish(p, 401, "User not found", NoToken)
       ELSE IF validateUser(arg[p].email, arg[p].password) = NoPrincipal
         THEN Finish(p, 401, "Invalid email or password", NoToken)
         ELSE pc' = [pc EXCEPT ![p] = "l_pipe"] /\ UNCHANGED res
  /\ UNCHANGED <<tables, nextId, tx, op, arg, tokens, now, edge, calls, req>>

\* LocalAuthGuard on the login route: LocalStrategy.validate; what it
\* returns becomes request.user
LocalStrategyValidate(p) ==
  /\ pc[p] = "l_local"
  /\ hist' = [hist EXCEPT ![p].known = EmailTaken(arg[p].email),
                          ![p].stage = "local"]
  /\ loc' = [loc EXCEPT ![p].principal =
                          validateUser(arg[p].email, arg[p].password)]
  /\ IF validateUser(arg[p].email, arg[p].password) = NoPrincipal
       THEN Finish(p, 401, "Invalid email or password", NoToken)
       ELSE pc' = [pc EXCEPT ![p] = "l_pipe"] /\ UNCHANGED res
  /\ UNCHANGED <<tables, nextId, tx, op, arg, tokens, now, edge, calls, req>>

\* the handler: AuthService.login validates again, signs a token and answers
\* it with sanitizeUser(user); a failure of the signer is caught by nobody
\* and leaves as 500
AuthServiceLogin(p) ==
  /\ pc[p] = "l_login"
  /\ LET user == validateUser(arg[p].email, arg[p].password)
         t == generateToken(user.id, user.email, user.role)
     IN
     IF user = NoPrincipal
       THEN /\ Finish(p, 401, "Invalid email or password", NoToken)
            /\ hist' = [hist EXCEPT ![p].stage = "login"]
            /\ UNCHANGED tokens
       ELSE \/ /\ tokens' = tokens \cup {t}
               /\ FinishWith(p, 200, "ok", t, sanitizeUser(user))
               /\ hist' = [hist EXCEPT ![p].stage = "login"]
            \/ /\ Finish(p, 500, "Internal server error", NoToken)
               /\ hist' = [hist EXCEPT ![p].stage = "login", ![p].fault = TRUE]
               /\ UNCHANGED tokens
  /\ UNCHANGED <<tables, nextId, tx, op, arg, loc, now, edge, calls, req>>

\* ---- StudentsService -----------------------------------------------------
\* POST /students with a body that passed CreateStudentDto validation
StudentsCreateBegin(p, bodies) ==
  \E b \in bodies :
    BeginCall(p, "sCreate",
              [NoArg EXCEPT !.email = b[1], !.password = b[2], !.role = "STUDENT",
                            !.studentCode = b[3], !.classroomId = b[4]],
              "sc_email", ~EmailTaken(b[1]))

\* create: user.findUnique({email})
StudentsCreateCheckEmail(p) ==
  /\ pc[p] = "sc_email"
  /\ IF EmailTaken(arg[p].email)
       THEN Finish(p, 409, "User with this email already exists", NoToken)
       ELSE pc' = [pc EXCEPT ![p] = "sc_code"] /\ UNCHANGED res
  /\ UNCHANGED <<tables, nextId, tx, op, arg, loc, tokens, now, edge, calls, hist, req>>

\* create: student.findUnique({studentCode})
StudentsCreateCheckCode(p) ==
  /\ pc[p] = "sc_code"
  /\ IF CodeTaken(arg[p].studentCode, NoId)
       THEN Finish(p, 409, "Student with this student code already exists",
                   NoToken)
       ELSE pc' = [pc EXCEPT ![p] = "sc_class"] /\ UNCHANGED res
  /\ UNCHANGED <<tables, nextId, tx, op, arg, loc, tokens, now, edge, calls, hist, req>>

\* create: classroom.findUnique({id: classroomId})
StudentsCreateCheckClassroom(p) ==
  /\ pc[p] = "sc_class"
  /\ IF ~ClassroomExists(arg[p].classroomId)
       THEN Finish(p, 400, "Classroom not found", NoToken)
       ELSE pc' = [pc EXCEPT ![p] = "tx_user"] /\ UNCHANGED res
  /\ UNCHANGED <<tables, nextId, tx, op, arg, loc, tokens, now, edge, calls, hist, req>>

\* PATCH /students/:id with a body that passed UpdateStudentDto validation
StudentsUpdateBegin(p, bodies) ==
  \E id \in {s.id : s \in students} \cup {NoId}, b \in bodies :
    BeginCall(p, "sUpdate",
              [NoArg EXCEPT !.id = id, !.studentCode = b[1], !.classroomId = b[2]],
              "su_find", FALSE)

\* where update goes after the check at position k (1 exists, 2 code, 3 classroom)
StudentsUpdateAfter(p, k) ==
  IF k < 2 /\ arg[p].studentCode # NoCode THEN "su_code"
  ELSE IF k < 3 /\ arg[p].classroomId # NoClass THEN "su_class"
  ELSE "su_write"

\* update: student.findUnique({id})
StudentsUpdateFind(p) ==
  /\ pc[p] = "su_find"
  /\ IF ~\E s \in students : s.id = arg[p].id
       THEN Finish(p, 404, "Student not found", NoToken)
       ELSE pc' = [pc EXCEPT ![p] = StudentsUpdateAfter(p, 1)] /\ UNCHANGED res
  /\ UNCHANGED <<tables, nextId, tx, op, arg, loc, tokens, now, edge, calls, hist, req>>

\* update: student.findFirst({studentCode, id: {not: id}})
StudentsUpdateCheckCode(p) ==
  /\ pc[p] = "su_code"
  /\ IF CodeTaken(arg[p].studentCode, arg[p].id)
       THEN Finish(p, 409, "Student code already exists", NoToken)
       ELSE pc' = [pc EXCEPT ![p] = StudentsUpdateAfter(p, 2)] /\ UNCHANGED res
  /\ UNCHANGED <<tables, nextId, tx, op, arg, loc, tokens, now, edge, calls, hist, req>>

\* update: classroom.findUnique({id: classroomId})
StudentsUpdateCheckClassroom(p) ==
  /\ pc[p] = "su_class"
  /\ IF ~ClassroomExists(arg[p].classroomId)
       THEN Finish(p, 400, "Classroom not found", NoToken)
       ELSE pc' = [pc EXCEPT ![p] = "su_write"] /\ UNCHANGED res
  /\ UNCHANGED <<tables, nextId, tx, op, arg, loc, tokens, now, edge, calls, hist, req>>

\* the row after student.update({where: {id}, data: dto})
UpdatedStudent(s, a) ==
  [s EXCEPT !.studentCode = IF a.studentCode # NoCode THEN a.studentCode ELSE @,
            !.classroomId = IF a.classroomId # NoClass THEN a.classroomId ELSE @]

\* update: student.update, one statement outside any transaction; what it
\* throws is caught by nobody and leaves as 500
StudentsUpdateWrite(p) ==
  /\ pc[p] = "su_write"
  /\ ~StudentRowLocked(p, arg[p].id)
  /\ arg[p].studentCode # NoCode => ~CodeLocked(p, arg[p].studentCode)
  /\ IF \/ ~\E s \in students : s.id = arg[p].id
        \/ /\ arg[p].studentCode # NoCode
           /\ students_student_code_key(arg[p].studentCode, arg[p].id)
        \/ /\ arg[p].classroomId # NoClass
           /\ students_classroom_id_fkey(arg[p].classroomId)
       THEN /\ Finish(p, 500, "Internal server error", NoToken)
            /\ UNCHANGED <<students, hist>>
       ELSE /\ students' = {IF s.id = arg[p].id THEN UpdatedStudent(s, arg[p])
                                                 ELSE s : s \in students}
            /\ hist' = [hist EXCEPT ![p].wrote = TRUE]
            /\ Finish(p, 200, "ok", NoToken)
  /\ UNCHANGED <<users, teachers, classrooms, subjects, assignments, nextId, tx,
                 op, arg, loc, tokens, now, edge, calls, req>>

\* DELETE /students/:id
StudentsRemoveBegin(p) ==
  \E id \in {s.id : s \in students} \cup {NoId} :
    BeginCall(p, "sRemove", [NoArg EXCEPT !.id = id], "sr_find", FALSE)

\* remove: student.findUnique({id}, include user)
StudentsRemoveFind(p) ==
  /\ pc[p] = "sr_find"
  /\ IF ~\E s \in students : s.id = arg[p].id
       THEN /\ Finish(p, 404, "Student not found", NoToken)
            /\ UNCHANGED loc
       ELSE /\ loc' = [loc EXCEPT ![p].userId =
                         (CHOOSE s \in students : s.id = arg[p].id).userId]
            /\ pc' = [pc EXCEPT ![p] = "tx_delStudent"]
            /\ UNCHANGED res
  /\ UNCHANGED <<tables, nextId, tx, op, arg, tokens, now, edge, calls, hist, req>>

\* the student deleted on this.prisma instead of on tx: committed at once
TxDeleteStudent_NoTransaction(p) ==
  /\ pc[p] = "tx_delStudent"
  /\ ~StudentRowLocked(p, arg[p].id)
  /\ IF ~\E s \in students : s.id = arg[p].id
       THEN Rollback(p, FailureMessage(op[p])) /\ UNCHANGED students
       ELSE /\ students' = {s \in students : s.id # arg[p].id}
            /\ pc' = [pc EXCEPT ![p] = "tx_delUser"]
            /\ UNCHANGED <<res, tx>>
  /\ UNCHANGED <<users, teachers, classrooms, subjects, assignments, nextId, op,
                 arg, loc, tokens, now, edge, calls, hist, req>>

\* remove: tx.student.delete({id})
TxDeleteStudent(p) ==
  /\ pc[p] = "tx_delStudent"
  /\ ~StudentRowLocked(p, arg[p].id)
  /\ IF ~\E s \in students : s.id = arg[p].id
       THEN Rollback(p, FailureMessage(op[p]))
       ELSE /\ tx' = [tx EXCEPT ![p].delStudents = {arg[p].id}]
            /\ pc' = [pc EXCEPT ![p] = "tx_delUser"]
            /\ UNCHANGED res
  /\ UNCHANGED <<tables, nextId, op, arg, loc, tokens, now, edge, calls, hist, req>>

\* remove: tx.user.delete({id: userId})
TxDeleteUser(p) ==
  /\ pc[p] = "tx_delUser"
  /\ ~UserRowLocked(p, loc[p].userId)
  /\ IF ~\E u \in users : u.id = loc[p].userId
       THEN Rollback(p, FailureMessage(op[p]))
       ELSE /\ tx' = [tx EXCEPT ![p].delUsers = {loc[p].userId}]
            /\ pc' = [pc EXCEPT ![p] = "tx_commit"]
            /\ UNCHANGED res
  /\ UNCHANGED <<tables, nextId, op, arg, loc, tokens, now, edge, calls, hist, req>>

\* ---- TeachersService -----------------------------------------------------
\* POST /teachers with a body that passed CreateTeacherDto validation
TeachersCreateBegin(p, bodies) ==
  \E b \in bodies :
    BeginCall(p, "tCreate",
              [NoArg EXCEPT !.email = b[1], !.password = b[2], !.role = "TEACHER"],
              "tc_email", ~EmailTaken(b[1]))

\* create: user.findUnique({email})
TeachersCreateCheckEmail(p) ==
  /\ pc[p] = "tc_email"
  /\ IF EmailTaken(arg[p].email)
       THEN Finish(p, 409, "User with this email already exists", NoToken)
       ELSE pc' = [pc EXCEPT ![p] = "tx_user"] /\ UNCHANGED res
  /\ UNCHANGED <<tables, nextId, tx, op, arg, loc, tokens, now, edge, calls, hist, req>>

\* DELETE /teachers/:id
TeachersRemoveBegin(p) ==
  \E id \in {x.id : x \in teachers} \cup {NoId} :
    BeginCall(p, "tRemove", [NoArg EXCEPT !.id = id], "tr_find", FALSE)

\* remove: teacher.findUnique({id}, include user and teachingAssignments)
TeachersRemoveFind(p) ==
  /\ pc[p] = "tr_find"
  /\ IF ~\E x \in teachers : x.id = arg[p].id
       THEN /\ Finish(p, 404, "Teacher not found", NoToken)
            /\ UNCHANGED loc
       ELSE IF \E a \in assignments : a.teacherId = arg[p].id
         THEN /\ Finish(p, 400,
                   "Cannot delete teacher with active teaching assignments",
                   NoToken)
              /\ UNCHANGED loc
         ELSE /\ loc' = [loc EXCEPT ![p].userId =
                           (CHOOSE x \in teachers : x.id = arg[p].id).userId]
              /\ pc' = [pc EXCEPT ![p] = "tx_delTeacher"]
              /\ UNCHANGED res
  /\ UNCHANGED <<tables, nextId, tx, op, arg, tokens, now, edge, calls, hist, req>>

\* remove: tx.teacher.delete({id})
TxDeleteTeacher(p) ==
  /\ pc[p] = "tx_delTeacher"
  /\ ~TeacherRowLocked(p, arg[p].id)
  /\ IF ~\E x \in teachers : x.id = arg[p].id
       THEN Rollback(p, FailureMessage(op[p]))
       ELSE /\ tx' = [tx EXCEPT ![p].delTeachers = {arg[p].id}]
            /\ pc' = [pc EXCEPT ![p] = "tx_delUser"]
            /\ UNCHANGED res
  /\ UNCHANGED <<tables, nextId, op, arg, loc, tokens, now, edge, calls, hist, req>>

\* ---- TeachingAssignmentsService ------------------------------------------
\* POST /teaching-assignments with a body that passed
\* CreateTeachingAssignmentDto validation
AssignmentsCreateBegin(p, bodies) ==
  \E b \in bodies :
    BeginCall(p, "aCreate",
              [NoArg EXCEPT !.teacherId = b[1], !.subjectId = b[2],
                            !.classroomId = b[3]],
              "ac_teacher",
              ~teaching_assignments_teacher_id_subject_id_classroom_id_key(
                 [teacherId |-> b[1], subjectId |-> b[2], classroomId |-> b[3]],
                 NoId))

\* create: teacher.findUnique({id: teacherId})
AssignmentsCreateCheckTeacher(p) ==
  /\ pc[p] = "ac_teacher"
  /\ IF ~\E x \in teachers : x.id = arg[p].teacherId
       THEN Finish(p, 400, "Teacher not found", NoToken)
       ELSE pc' = [pc EXCEPT ![p] = "ac_subject"] /\ UNCHANGED res
  /\ UNCHANGED <<tables, nextId, tx, op, arg, loc, tokens, now, edge, calls, hist, req>>

\* create: subject.findUnique({id: subjectId})
AssignmentsCreateCheckSubject(p) ==
  /\ pc[p] = "ac_subject"
  /\ IF arg[p].subjectId \notin subjects
       THEN Finish(p, 400, "Subject not found", NoToken)
       ELSE pc' = [pc EXCEPT ![p] = "ac_class"] /\ UNCHANGED res
  /\ UNCHANGED <<tables, nextId, tx, op, arg, loc, tokens, now, edge, calls, hist, req>>

\* create: classroom.findUnique({id: classroomId})
AssignmentsCreateCheckClassroom(p) ==
  /\ pc[p] = "ac_class"
  /\ IF ~ClassroomExists(arg[p].classroomId)
       THEN Finish(p, 400, "Classroom not found", NoToken)
       ELSE pc' = [pc EXCEPT ![p] = "ac_exists"] /\ UNCHANGED res
  /\ UNCHANGED <<tables, nextId, tx, op, arg, loc, tokens, now, edge, calls, hist, req>>

\* create: teachingAssignment.findUnique({teacherId_subjectId_classroomId})
AssignmentsCreateCheckExisting(p) ==
  /\ pc[p] = "ac_exists"
  /\ IF \E a \in assignments : /\ a.teacherId = arg[p].teacherId
                               /\ a.subjectId = arg[p].subjectId
                               /\ a.classroomId = arg[p].classroomId
       THEN Finish(p, 409, "Teaching assignment already exists", NoToken)
       ELSE pc' = [pc EXCEPT ![p] = "ac_write"] /\ UNCHANGED res
  /\ UNCHANGED <<tables, nextId, tx, op, arg, loc, tokens, now, edge, calls, hist, req>>

\* create: teachingAssignment.create, one statement inside try: whatever it
\* throws (unique index, foreign key) is answered 400.  The insert waits for
\* a transaction that is deleting its teacher
AssignmentsCreateWrite(p) ==
  /\ pc[p] = "ac_write"
  /\ ~TeacherRowLocked(p, arg[p].teacherId)
  /\ IF \/ teaching_assignments_teacher_id_subject_id_classroom_id_key(arg[p], NoId)
        \/ teaching_assignments_fkeys(arg[p])
       THEN /\ Finish(p, 400, FailureMessage(op[p]), NoToken)
            /\ UNCHANGED <<assignments, nextId, hist>>
       ELSE /\ assignments' = assignments \cup
                                {[id |-> nextId, teacherId |-> arg[p].teacherId,
                                  subjectId |-> arg[p].subjectId,
                                  classroomId |-> arg[p].classroomId]}
            /\ nextId' = nextId + 1
            /\ hist' = [hist EXCEPT ![p].wrote = TRUE]
            /\ Finish(p, 201, "ok", NoToken)
  /\ UNCHANGED <<users, students, teachers, classrooms, subjects, tx, op, arg,
                 loc, tokens, now, edge, calls, req>>

\* PATCH /teaching-assignments/:id with a body that passed
\* UpdateTeachingAssignmentDto validation
AssignmentsUpdateBegin(p, bodies) ==
  \E id \in {a.id : a \in assignments} \cup {NoId}, b \in bodies :
    BeginCall(p, "aUpdate",
              [NoArg EXCEPT !.id = id, !.teacherId = b[1], !.subjectId = b[2],
                            !.classroomId = b[3]],
              "au_find", FALSE)

\* where update goes after the check at position k (1 exists, 2 teacher,
\* 3 subject, 4 classroom, 5 conflict)
AssignmentsUpdateAfter(p, k) ==
  IF k < 2 /\ arg[p].teacherId # NoId THEN "au_teacher"
  ELSE IF k < 3 /\ arg[p].subjectId # NoSubject THEN "au_subject"
  ELSE IF k < 4 /\ arg[p].classroomId # NoClass THEN "au_class"
  ELSE IF k < 5 /\ \/ arg[p].teacherId # NoId
                   \/ arg[p].subjectId # NoSubject
                   \/ arg[p].classroomId # NoClass THEN "au_conflict"
  ELSE "au_write"

\* update: teachingAssignment.findUnique({id})
AssignmentsUpdateFind(p) ==
  /\ pc[p] = "au_find"
  /\ IF ~\E a \in assignments : a.id = arg[p].id
       THEN /\ Finish(p, 404, "Teaching assignment not found", NoToken)
            /\ UNCHANGED loc
       ELSE /\ loc' = [loc EXCEPT ![p].existing =
                         CHOOSE a \in assignments : a.id = arg[p].id]
            /\ pc' = [pc EXCEPT ![p] = AssignmentsUpdateAfter(p, 1)]
            /\ UNCHANGED res
  /\ UNCHANGED <<tables, nextId, tx, op, arg, tokens, now, edge, calls, hist, req>>

\* update: teacher.findUnique({id: updateDto.teacherId})
AssignmentsUpdateCheckTeacher(p) ==
  /\ pc[p] = "au_teacher"
  /\ IF ~\E x \in teachers : x.id = arg[p].teacherId
       THEN Finish(p, 400, "Teacher not found", NoToken)
       ELSE pc' = [pc EXCEPT ![p] = AssignmentsUpdateAfter(p, 2)] /\ UNCHANGED res
  /\ UNCHANGED <<tables, nextId, tx, op, arg, loc, tokens, now, edge, calls, hist, req>>

\* update: subject.findUnique({id: updateDto.subjectId})
AssignmentsUpdateCheckSubject(p) ==
  /\ pc[p] = "au_subject"
  /\ IF arg[p].subjectId \notin subjects
       THEN Finish(p, 400, "Subject not found", NoToken)
       ELSE pc' = [pc EXCEPT ![p] = AssignmentsUpdateAfter(p, 3)] /\ UNCHANGED res
  /\ UNCHANGED <<tables, nextId, tx, op, arg, loc, tokens, now, edge, calls, hist, req>>

\* update: classroom.findUnique({id: updateDto.classroomId})
AssignmentsUpdateCheckClassroom(p) ==
  /\ pc[p] = "au_class"
  /\ IF ~ClassroomExists(arg[p].classroomId)
       THEN Finish(p, 400, "Classroom not found", NoToken)
       ELSE pc' = [pc EXCEPT ![p] = AssignmentsUpdateAfter(p, 4)] /\ UNCHANGED res
  /\ UNCHANGED <<tables, nextId, tx, op, arg, loc, tokens, now, edge, calls, hist, req>>

\* the fields of updateDto over those of the row a
UpdatedAssignment(a, updateDto) ==
  [a EXCEPT !.teacherId = IF updateDto.teacherId # NoId
                            THEN updateDto.teacherId ELSE @,
            !.subjectId = IF updateDto.subjectId # NoSubject
                            THEN updateDto.subjectId ELSE @,
            !.classroomId = IF updateDto.classroomId # NoClass
                              THEN updateDto.classroomId ELSE @]

\* update: teachingAssignment.findFirst({the new combination, id: {not: id}}),
\* the new combination being updateDto over the existingAssignment read first
AssignmentsUpdateCheckConflict(p) ==
  /\ pc[p] = "au_conflict"
  /\ LET new == UpdatedAssignment(loc[p].existing, arg[p]) IN
     IF \E a \in assignments : /\ a.teacherId = new.teacherId
                               /\ a.subjectId = new.subjectId
                               /\ a.classroomId = new.classroomId
                               /\ a.id # arg[p].id
       THEN Finish(p, 409, "This teaching assignment combination already exists",
                   NoToken)
       ELSE pc' = [pc EXCEPT ![p] = "au_write"] /\ UNCHANGED res
  /\ UNCHANGED <<tables, nextId, tx, op, arg, loc, tokens, now, edge, calls, hist, req>>

\* update: teachingAssignment.update({where: {id}, data: updateDto}), one
\* statement outside any try: what it throws leaves as 500
AssignmentsUpdateWrite(p) ==
  /\ pc[p] = "au_write"
  /\ arg[p].teacherId # NoId => ~TeacherRowLocked(p, arg[p].teacherId)
  /\ LET rows == {a \in assignments : a.id = arg[p].id} IN
     IF rows = {}
       THEN /\ Finish(p, 500, "Internal server error", NoToken)
            /\ UNCHANGED <<assignments, hist>>
       ELSE LET new == UpdatedAssignment(CHOOSE a \in rows : TRUE, arg[p]) IN
            IF \/ teaching_assignments_teacher_id_subject_id_classroom_id_key(
                    new, arg[p].id)
               \/ teaching_assignments_fkeys(new)
              THEN /\ Finish(p, 500, "Internal server error", NoToken)
                   /\ UNCHANGED <<assignments, hist>>
              ELSE /\ assignments' = (assignments \ rows) \cup {new}
                   /\ hist' = [hist EXCEPT ![p].wrote = TRUE]
                   /\ Finish(p, 200, "ok", NoToken)
  /\ UNCHANGED <<users, students, teachers, classrooms, subjects, nextId, tx, op,
                 arg, loc, tokens, now, edge, calls, req>>

\* ---- SubjectsService -----------------------------------------------------
\* DELETE /subjects/:id; m9 is the id of no subject
SubjectsRemoveBegin(p) ==
  \E id \in subjects \cup {"m9"} :
    BeginCall(p, "jRemove", [NoArg EXCEPT !.subjectId = id], "jr_find", FALSE)

\* remove: subject.findUnique({id}, include teachingAssignments)
SubjectsRemoveFind(p) ==
  /\ pc[p] = "jr_find"
  /\ IF arg[p].subjectId \notin subjects
       THEN Finish(p, 404, "Subject not found", NoToken)
       ELSE IF \E a \in assignments : a.subjectId = arg[p].subjectId
         THEN Finish(p, 400,
                "Cannot delete subject with active teaching assignments", NoToken)
         ELSE pc' = [pc EXCEPT ![p] = "jr_delete"] /\ UNCHANGED res
  /\ UNCHANGED <<tables, nextId, tx, op, arg, loc, tokens, now, edge, calls, hist, req>>

\* remove: subject.delete({id}) inside try; the delete cascades to the
\* assignments of the subject (teaching_assignments_subject_id_fkey)
SubjectsRemoveDelete(p) ==
  /\ pc[p] = "jr_delete"
  /\ IF arg[p].subjectId \notin subjects
       THEN /\ Finish(p, 400, FailureMessage(op[p]), NoToken)
            /\ UNCHANGED <<subjects, assignments, hist>>
       ELSE /\ subjects' = subjects \ {arg[p].subjectId}
            /\ assignments' = {a \in assignments : a.subjectId # arg[p].subjectId}
            /\ hist' = [hist EXCEPT ![p].wrote = TRUE]
            /\ Finish(p, 200, "ok", NoToken)
  /\ UNCHANGED <<users, students, teachers, classrooms, nextId, tx, op, arg, loc,
                 tokens, now, edge, calls, req>>

\* ---- ClassroomsService ---------------------------------------------------
\* DELETE /classrooms/:id; c9 is the id of no classroom
ClassroomsRemoveBegin(p) ==
  \E id \in classrooms \cup {"c9"} :
    BeginCall(p, "cRemove", [NoArg EXCEPT !.classroomId = id], "cr_find", FALSE)

\* remove: classroom.findUnique({id}, include students, teachingAssignments)
ClassroomsRemoveFind(p) ==
  /\ pc[p] = "cr_find"
  /\ IF ~ClassroomExists(arg[p].classroomId)
       THEN Finish(p, 404, "Classroom not found", NoToken)
       ELSE IF \E s \in students : s.classroomId = arg[p].classroomId
         THEN Finish(p, 400, "Cannot delete classroom with enrolled students",
                     NoToken)
         ELSE IF \E a \in assignments : a.classroomId = arg[p].classroomId
           THEN Finish(p, 400,
                  "Cannot delete classroom with active teaching assignments",
                  NoToken)
           ELSE pc' = [pc EXCEPT ![p] = "cr_delete"] /\ UNCHANGED res
  /\ UNCHANGED <<tables, nextId, tx, op, arg, loc, tokens, now, edge, calls, hist, req>>

\* remove: classroom.delete({id}) inside try: refused while a student
\* references the classroom (ON DELETE RESTRICT), cascading to the
\* assignments of the classroom (teaching_assignments_classroom_id_fkey)
ClassroomsRemoveDelete(p) ==
  /\ pc[p] = "cr_delete"
  /\ ~ClassroomRowLocked(p, arg[p].classroomId)
  /\ IF \/ ~ClassroomExists(arg[p].classroomId)
        \/ students_classroom_id_fkey_RESTRICT(arg[p].classroomId)
       THEN /\ Finish(p, 400, FailureMessage(op[p]), NoToken)
            /\ UNCHANGED <<classrooms, assignments, hist>>
       ELSE /\ classrooms' = classrooms \ {arg[p].classroomId}
            /\ assignments' =
                 {a \in assignments : a.classroomId # arg[p].classroomId}
            /\ hist' = [hist EXCEPT ![p].wrote = TRUE]
            /\ Finish(p, 200, "ok", NoToken)
  /\ UNCHANGED <<users, students, teachers, subjects, nextId, tx, op, arg, loc,
                 tokens, now, edge, calls, req>>

\* ---- the account specification -------------------------------------------
\* The store the behaviours start from: classroom c1, the student account
\* e0 (code s0, in c1) and the teacher account t0, as StudentsService.create
\* and TeachersService.create leave them.
SeedPassword == "P1"

SeedUsers ==
  {[id |-> 1, email |-> "e0", password |-> hashPassword(SeedPassword),
    role |-> "STUDENT"],
   [id |-> 3, email |-> "t0", password |-> hashPassword(SeedPassword),
    role |-> "TEACHER"]}

SeedStudents ==
  {[id |-> 2, userId |-> 1, studentCode |-> "s0", classroomId |-> "c1"]}

SeedTeachers == {[id |-> 4, userId |-> 3]}

Init ==
  /\ users = SeedUsers
  /\ students = SeedStudents
  /\ teachers = SeedTeachers
  /\ classrooms = {"c1"}
  /\ subjects = {}
  /\ assignments = {}
  /\ nextId = 5
  /\ tx = [p \in Procs |-> EmptyTx]
  /\ pc = [p \in Procs |-> "idle"]
  /\ op = [p \in Procs |-> "none"]
  /\ arg = [p \in Procs |-> NoArg]
  /\ loc = [p \in Procs |-> NoLoc]
  /\ res = [p \in Procs |-> NoRes]
  /\ tokens = {}
  /\ now = 0
  /\ calls = 0
  /\ hist = [p \in Procs |-> NoHist]
  /\ req = NoReq
  /\ boot = Booted
  /\ dto = NoDto

\* the bodies the account calls are tried with: e0 and s0 are taken,
\* e1, e2 and s1 are free, c1 exists and c9 does not
RegisterBodies ==
  {<<"e0", "P1", "STUDENT", "s1", "c1">>, <<"e1", "P1", "STUDENT", "s1", "c1">>,
   <<"e2", "P1", "STUDENT", "s1", "c1">>, <<"e0", "P1", "STUDENT", NoCode, NoClass>>,
   <<"e1", "P1", "STUDENT", NoCode, "c1">>, <<"e1", "P1", "STUDENT", "s1", NoClass>>,
   <<"e1", "P1", "STUDENT", "s1", "c9">>, <<"e1", "P1", "STUDENT", "s0", "c1">>,
   <<"e0", "P1", "TEACHER", NoCode, NoClass>>, <<"e1", "P1", "TEACHER", NoCode, NoClass>>,
   <<"e1", "P1", "ADMIN", NoCode, NoClass>>, <<"e1", "P1", "ADMIN", "s1", "c1">>}

StudentBodies ==
  {<<"e0", "P1", "s1", "c1">>, <<"e1", "P1", "s1", "c1">>,
   <<"e1", "P1", "s0", "c1">>, <<"e1", "P1", "s1", "c9">>}

UpdateBodies == {<<"s1", NoClass>>, <<"s1", "c1">>, <<NoCode, "c9">>}

TeacherBodies == {<<"e0", "P1">>, <<"e1", "P1">>}

Next ==
  \E p \in Procs :
    \/ RegisterBegin(p, RegisterBodies)
    \/ RegisterCheckEmail(p)
    \/ RegisterCheckCode(p)
    \/ RegisterCheckClassroom(p)
    \/ RegisterSign(p)
    \/ StudentsCreateBegin(p, StudentBodies)
    \/ StudentsCreateCheckEmail(p)
    \/ StudentsCreateCheckCode(p)
    \/ StudentsCreateCheckClassroom(p)
    \/ StudentsUpdateBegin(p, UpdateBodies)
    \/ StudentsUpdateFind(p)
    \/ StudentsUpdateCheckCode(p)
    \/ StudentsUpdateCheckClassroom(p)
    \/ StudentsUpdateWrite(p)
    \/ StudentsRemoveBegin(p)
    \/ StudentsRemoveFind(p)
    \/ TeachersCreateBegin(p, TeacherBodies)
    \/ TeachersCreateCheckEmail(p)
    \/ TeachersRemoveBegin(p)
    \/ TeachersRemoveFind(p)
    \/ TxCreateUser(p)
    \/ TxCreateStudent(p)
    \/ TxCreateTeacher(p)
    \/ TxDeleteStudent(p)
    \/ TxDeleteTeacher(p)
    \/ TxDeleteUser(p)
    \/ TxCommit(p)
    \/ TxFault(p)

Spec == Init /\ [][Next]_vars

\* ---- login against concurrent removals -----------------------------------
\* (e0, P1) are the credentials of the seeded student; e1 is unregistered
LoginBodies == {<<"e0", "P1">>, <<"e0", "P2">>, <<"e1", "P1">>, <<"t0", "P1">>}

NextLogin ==
  \E p \in Procs :
    \/ LoginBegin(p, LoginBodies)
    \/ LocalAuthGuard(p)
    \/ LocalStrategyValidate(p)
    \/ LoginValidationPipe(p)
    \/ AuthServiceLogin(p)
    \/ StudentsRemoveBegin(p)
    \/ StudentsRemoveFind(p)
    \/ TeachersRemoveBegin(p)
    \/ TeachersRemoveFind(p)
    \/ TxDeleteStudent(p)
    \/ TxDeleteTeacher(p)
    \/ TxDeleteUser(p)
    \/ TxCommit(p)
    \/ TxFault(p)

SpecLogin == Init /\ [][NextLogin]_vars

\* ---- login with any body ----------------------------------------------------
\* e0 is registered with P1 and e1 is not; "bad" is no address, "" is empty
RawLoginBodies ==
  {<<e, w>> : e \in {"e0", "e1", "bad", ""}, w \in {"P1", "P2", ""}}

NextLoginDto ==
  \E p \in Procs :
    \/ LoginBegin(p, RawLoginBodies)
    \/ LocalAuthGuard(p)
    \/ LocalStrategyValidate(p)
    \/ LoginValidationPipe(p)
    \/ AuthServiceLogin(p)

SpecLoginDto == Init /\ [][NextLoginDto]_vars

\* ---- login after registration -------------------------------------------------
\* e1 registers with P2 as an administrator or with P1 as a student; logins
\* try e1 and the seeded e0 with both passwords; students are removed
CredBodies ==
  {<<"e1", "P2", "ADMIN", NoCode, NoClass>>, <<"e1", "P1", "STUDENT", "s1", "c1">>}

CredLoginBodies == {<<e, w>> : e \in {"e0", "e1"}, w \in {"P1", "P2"}}

NextCred ==
  \E p \in Procs :
    \/ RegisterBegin(p, CredBodies)
    \/ RegisterCheckEmail(p)
    \/ RegisterCheckCode(p)
    \/ RegisterCheckClassroom(p)
    \/ RegisterSign(p)
    \/ LoginBegin(p, CredLoginBodies)
    \/ LocalAuthGuard(p)
    \/ LocalStrategyValidate(p)
    \/ LoginValidationPipe(p)
    \/ AuthServiceLogin(p)
    \/ StudentsRemoveBegin(p)
    \/ StudentsRemoveFind(p)
    \/ TxCreateUser(p)
    \/ TxCreateStudent(p)
    \/ TxDeleteStudent(p)
    \/ TxDeleteUser(p)
    \/ TxCommit(p)

SpecCred == Init /\ [][NextCred]_vars

\* ---- the order of register's preconditions ------------------------------------
\* every combination of a taken (e0) or free (e1) email, a role, a student
\* code that is absent, taken (s0) or free (s1) and a classroom that is
\* absent, existing (c1) or unknown (c9)
OrderBodies ==
  {<<e, "P1", r, c, k>> : e \in {"e0", "e1"}, r \in Roles,
                          c \in {NoCode, "s0", "s1"}, k \in {NoClass, "c1", "c9"}}

NextOrder ==
  \E p \in Procs :
    \/ RegisterBegin(p, OrderBodies)
    \/ RegisterCheckEmail(p)
    \/ RegisterCheckCode(p)
    \/ RegisterCheckClassroom(p)
    \/ RegisterSign(p)
    \/ TxCreateUser(p)
    \/ TxCreateStudent(p)
    \/ TxCreateTeacher(p)
    \/ TxCommit(p)

SpecOrder == Init /\ [][NextOrder]_vars

\* ---- register against a failing store ------------------------------------------
\* a registration of each role with the free email e1, and one with the
\* registered e0
FaultBodies ==
  {<<"e1", "P1", "STUDENT", "s1", "c1">>, <<"e1", "P1", "TEACHER", NoCode, NoClass>>,
   <<"e1", "P1", "ADMIN", NoCode, NoClass>>, <<"e0", "P1", "STUDENT", "s1", "c1">>}

NextFault ==
  \E p \in Procs :
    \/ RegisterBegin(p, FaultBodies)
    \/ RegisterCheckEmail(p)
    \/ RegisterCheckCode(p)
    \/ RegisterCheckClassroom(p)
    \/ RegisterLookupFault(p)
    \/ RegisterSign(p)
    \/ TxCreateUser(p)
    \/ TxCreateStudent(p)
    \/ TxCreateTeacher(p)
    \/ TxCommit(p)
    \/ TxFault(p)

SpecFault == Init /\ [][NextFault]_vars

\* ---- teaching assignments against removals --------------------------------------
\* The store with a second teacher t1, the classrooms c1 and c2, the subjects
\* m1 and m2 and the assignment of t1 to m1 in c1, as TeachersService.create
\* and TeachingAssignmentsService.create leave them: teacher t0, subject m2
\* and classroom c2 have no assignment, and c2 no student.
SchoolUsers ==
  SeedUsers \cup {[id |-> 5, email |-> "t1",
                   password |-> hashPassword(SeedPassword), role |-> "TEACHER"]}

SchoolTeachers == SeedTeachers \cup {[id |-> 6, userId |-> 5]}

SchoolAssignments ==
  {[id |-> 7, teacherId |-> 6, subjectId |-> "m1", classroomId |-> "c1"]}

InitSchool ==
  /\ users = SchoolUsers
  /\ students = SeedStudents
  /\ teachers = SchoolTeachers
  /\ classrooms = {"c1", "c2"}
  /\ subjects = {"m1", "m2"}
  /\ assignments = SchoolAssignments
  /\ nextId = 8
  /\ tx = [p \in Procs |-> EmptyTx]
  /\ pc = [p \in Procs |-> "idle"]
  /\ op = [p \in Procs |-> "none"]
  /\ arg = [p \in Procs |-> NoArg]
  /\ loc = [p \in Procs |-> NoLoc]
  /\ res = [p \in Procs |-> NoRes]
  /\ tokens = {}
  /\ now = 0
  /\ calls = 0
  /\ hist = [p \in Procs |-> NoHist]
  /\ req = NoReq
  /\ boot = Booted
  /\ dto = NoDto

\* t0 (teacher 4) is assigned to m2 in c2; the assignment of t1 exists
AssignBodies == {<<4, "m2", "c2">>, <<6, "m1", "c1">>}

\* an assignment is moved to t0, m2 and c2, or to m2 alone
AssignUpdateBodies == {<<4, "m2", "c2">>, <<NoId, "m2", NoClass>>}

NextAssign ==
  \E p \in Procs :
    \/ AssignmentsCreateBegin(p, AssignBodies)
    \/ AssignmentsCreateCheckTeacher(p)
    \/ AssignmentsCreateCheckSubject(p)
    \/ AssignmentsCreateCheckClassroom(p)
    \/ AssignmentsCreateCheckExisting(p)
    \/ AssignmentsCreateWrite(p)
    \/ AssignmentsUpdateBegin(p, AssignUpdateBodies)
    \/ AssignmentsUpdateFind(p)
    \/ AssignmentsUpdateCheckTeacher(p)
    \/ AssignmentsUpdateCheckSubject(p)
    \/ AssignmentsUpdateCheckClassroom(p)
    \/ AssignmentsUpdateCheckConflict(p)
    \/ AssignmentsUpdateWrite(p)
    \/ SubjectsRemoveBegin(p)
    \/ SubjectsRemoveFind(p)
    \/ SubjectsRemoveDelete(p)
    \/ ClassroomsRemoveBegin(p)
    \/ ClassroomsRemoveFind(p)
    \/ ClassroomsRemoveDelete(p)
    \/ TeachersRemoveBegin(p)
    \/ TeachersRemoveFind(p)
    \/ TxDeleteTeacher(p)
    \/ TxDeleteUser(p)
    \/ TxCommit(p)

SpecAssign == InitSchool /\ [][NextAssign]_vars

\* ---- the guard chain -------------------------------------------------------
\* the routes of AuthController the chain is tried on
Routes == {"register", "health", "me", "admin-test", "teacher-test"}

\* register without its @Public()
RoutePublic_RegisterProtected(route) == route \in {"login", "health"}

\* health without its @Public()
RoutePublic_HealthProtected(route) == route \in {"register", "login"}

\* the route carries @Public()
RoutePublic(route) == route \in {"register", "login", "health"}

\* ---- the routes of the resource modules ----------------------------------------
\* <<method, path, roles of @Roles(...)>> of every route of a controller, in
\* the order of the source
\* GET /students/:id declared for every role
StudentsRoutes_OpenGet ==
  {<<"POST", "/students", {"ADMIN"}>>,
   <<"GET", "/students", {"ADMIN", "TEACHER"}>>,
   <<"GET", "/students/count", {"ADMIN", "TEACHER"}>>,
   <<"GET", "/students/classroom/:classroomId/count", {"ADMIN", "TEACHER"}>>,
   <<"GET", "/students/code/:studentCode", {"ADMIN", "TEACHER"}>>,
   <<"GET", "/students/:id", {"ADMIN", "TEACHER", "STUDENT"}>>,
   <<"PATCH", "/students/:id", {"ADMIN"}>>,
   <<"DELETE", "/students/:id", {"ADMIN"}>>}

\* StudentsController
StudentsRoutes ==
  {<<"POST", "/students", {"ADMIN"}>>,
   <<"GET", "/students", {"ADMIN", "TEACHER"}>>,
   <<"GET", "/students/count", {"ADMIN", "TEACHER"}>>,
   <<"GET", "/students/classroom/:classroomId/count", {"ADMIN", "TEACHER"}>>,
   <<"GET", "/students/code/:studentCode", {"ADMIN", "TEACHER"}>>,
   <<"GET", "/students/:id", {"ADMIN", "TEACHER"}>>,
   <<"PATCH", "/students/:id", {"ADMIN"}>>,
   <<"DELETE", "/students/:id", {"ADMIN"}>>}

\* TeachersController
TeachersRoutes ==
  {<<"POST", "/teachers", {"ADMIN"}>>,
   <<"GET", "/teachers", {"ADMIN", "TEACHER"}>>,
   <<"GET", "/teachers/count", {"ADMIN"}>>,
   <<"GET", "/teachers/:id", {"ADMIN", "TEACHER"}>>,
   <<"GET", "/teachers/:id/assignments", {"ADMIN", "TEACHER"}>>,
   <<"PATCH", "/teachers/:id", {"ADMIN"}>>,
   <<"DELETE", "/teachers/:id", {"ADMIN"}>>}

\* ClassroomsController
ClassroomsRoutes ==
  {<<"POST", "/classrooms", {"ADMIN"}>>,
   <<"GET", "/classrooms", {"ADMIN", "TEACHER"}>>,
   <<"GET", "/classrooms/count", {"ADMIN", "TEACHER"}>>,
   <<"GET", "/classrooms/:id/statistics", {"ADMIN", "TEACHER"}>>,
   <<"GET", "/classrooms/:id/students", {"ADMIN", "TEACHER"}>>,
   <<"GET", "/classrooms/:id/assignments", {"ADMIN", "TEACHER"}>>,
   <<"GET", "/classrooms/name/:name", {"ADMIN", "TEACHER"}>>,
   <<"GET", "/classrooms/:id", {"ADMIN", "TEACHER"}>>,
   <<"PATCH", "/classrooms/:id", {"ADMIN"}>>,
   <<"DELETE", "/classrooms/:id", {"ADMIN"}>>}

\* SubjectsController
SubjectsRoutes ==
  {<<"POST", "/subjects", {"ADMIN"}>>,
   <<"GET", "/subjects", {"ADMIN", "TEACHER"}>>,
   <<"GET", "/subjects/count", {"ADMIN", "TEACHER"}>>,
   <<"GET", "/subjects/search", {"ADMIN", "TEACHER"}>>,
   <<"GET", "/subjects/:id/statistics", {"ADMIN", "TEACHER"}>>,
   <<"GET", "/subjects/:id/assignments", {"ADMIN", "TEACHER"}>>,
   <<"GET", "/subjects/:id/teachers", {"ADMIN", "TEACHER"}>>,
   <<"GET", "/subjects/:id/classrooms", {"ADMIN", "TEACHER"}>>,
   <<"GET", "/subjects/code/:code", {"ADMIN", "TEACHER"}>>,
   <<"GET", "/subjects/:id", {"ADMIN", "TEACHER"}>>,
   <<"PATCH", "/subjects/:id", {"ADMIN"}>>,
   <<"DELETE", "/subjects/:id", {"ADMIN"}>>}

\* TeachingAssignmentsController
TeachingAssignmentsRoutes ==
  {<<"POST", "/teaching-assignments", {"ADMIN"}>>,
   <<"GET", "/teaching-assignments", {"ADMIN", "TEACHER"}>>,
   <<"GET", "/teaching-assignments/count", {"ADMIN", "TEACHER"}>>,
   <<"GET", "/teaching-assignments/teacher/:teacherId", {"ADMIN", "TEACHER"}>>,
   <<"GET", "/teaching-assignments/subject/:subjectId", {"ADMIN", "TEACHER"}>>,
   <<"GET", "/teaching-assignments/classroom/:classroomId", {"ADMIN", "TEACHER"}>>,
   <<"GET", "/teaching-assignments/department/:department", {"ADMIN", "TEACHER"}>>,
   <<"GET", "/teaching-assignments/level/:level", {"ADMIN", "TEACHER"}>>,
   <<"GET", "/teaching-assignments/:id/statistics", {"ADMIN", "TEACHER"}>>,
   <<"GET", "/teaching-assignments/:id", {"ADMIN", "TEACHER"}>>,
   <<"PATCH", "/teaching-assignments/:id", {"ADMIN"}>>,
   <<"DELETE", "/teaching-assignments/:id", {"ADMIN"}>>}

ResourceRoutes ==
  StudentsRoutes \cup TeachersRoutes \cup ClassroomsRoutes \cup SubjectsRoutes
    \cup TeachingAssignmentsRoutes

\* a route is named by its method and its path
RouteName(r) == r[1] \o " " \o r[2]

ResourceRouteNames == {RouteName(r) : r \in ResourceRoutes}

\* teacher-test declared with every role
RouteRoles_TeacherTestAll(route) ==
  CASE route = "admin-test" -> {"ADMIN"}
    [] route = "teacher-test" -> {"STUDENT", "TEACHER", "ADMIN"}
    [] route \in ResourceRouteNames ->
         (CHOOSE r \in ResourceRoutes : RouteName(r) = route)[3]
    [] OTHER -> {}

\* the roles of the route's @Roles(...); empty when it has none
RouteRoles(route) ==
  CASE route = "admin-test" -> {"ADMIN"}
    [] route = "teacher-test" -> {"TEACHER", "ADMIN"}
    [] route \in ResourceRouteNames ->
         (CHOOSE r \in ResourceRoutes : RouteName(r) = route)[3]
    [] OTHER -> {}

\* what a request can carry as Authorization: nothing, a string that is no
\* JWT, a signed token, or the claims of a signed token under another key
Headers ==
  {NoHeader, [kind |-> "garbled", token |-> NoToken]}
    \cup {[kind |-> k, token |-> t] : k \in {"jwt", "badsig"}, t \in tokens}

\* the strategy built with ignoreExpiration: true
ignoreExpiration_True == TRUE

\* JwtStrategy options: ignoreExpiration
ignoreExpiration == FALSE

\* the key the strategy falls back to
DefaultSecret == "your-secret-key-change-in-production"

\* configService.get('JWT_SECRET') || DefaultSecret: an unset or empty
\* variable is falsy
secretOrKey(JWT_SECRET) ==
  IF JWT_SECRET \in {"unset", ""} THEN DefaultSecret ELSE JWT_SECRET

\* the process starts: the JwtStrategy constructor fixes the key tokens are
\* verified with, and the service begins to accept requests
JwtStrategyConstructor ==
  /\ boot.state = "starting"
  /\ boot' = [boot EXCEPT !.secretOrKey = secretOrKey(boot.JWT_SECRET),
                          !.state = "running"]
  /\ UNCHANGED <<tables, nextId, tx, pc, op, arg, loc, res, tokens, now, calls,
                 hist, req, dto>>

\* a token still passes in the tick of its expiry
JwtVerified_ExpiryInclusive(header) ==
  /\ \/ header.kind = "jwt"
     \/ header.kind = "default" /\ boot.secretOrKey = DefaultSecret
  /\ ignoreExpiration \/ now <= header.token.exp

\* passport-jwt under the options of the JwtStrategy constructor: a bearer
\* token is extracted, its signature verified with secretOrKey and, unless
\* ignoreExpiration, its expiry checked.  A token of kind "jwt" was signed by
\* the service, one of kind "default" by anybody with DefaultSecret
JwtVerified(header) ==
  /\ \/ header.kind = "jwt"
     \/ header.kind = "default" /\ boot.secretOrKey = DefaultSecret
  /\ ignoreExpiration \/ now < header.token.exp

\* validate looks the identity up by the email claim instead of the subject
JwtStrategyValidate_ByEmail(payload) ==
  LET found == {u \in users : u.email = payload.email} IN
  IF found = {} THEN NoPrincipal
  ELSE LET user == CHOOSE u \in found : TRUE IN
       [id |-> user.id, email |-> user.email, role |-> user.role]

\* validate returns the claims of the token without reading the store
JwtStrategyValidate_TrustsPayload(payload) ==
  [id |-> payload.sub, email |-> payload.email, role |-> payload.role]

\* JwtStrategy.validate: the identity of payload.sub as the store has it now
JwtStrategyValidate(payload) ==
  LET found == {u \in users : u.id = payload.sub} IN
  IF found = {} THEN NoPrincipal
  ELSE LET user == CHOOSE u \in found : TRUE IN
       [id |-> user.id, email |-> user.email, role |-> user.role]

\* a request for one of routes, carrying one of headers, arrives at the
\* chain of the running process
ReqStartOn(routes, headers) ==
  /\ boot.state = "running"
  /\ req.state \in {"none", "Admitted", "Unauthorized", "Forbidden"}
  /\ \E route \in routes, header \in headers :
       req' = [NoReq EXCEPT !.state = "Start", !.route = route,
                            !.header = header,
                            !.stale = /\ header.kind = "jwt"
                                      /\ ~\E u \in users : u.id = header.token.sub,
                            !.refreshed = req.refreshed]
  /\ UNCHANGED <<tables, nextId, tx, pc, op, arg, loc, res, tokens, now, edge, calls,
                 hist>>

\* a request arrives at the chain
ReqStart == ReqStartOn(Routes, Headers)

\* JwtAuthGuard, first half: a public route is admitted at once
ReqPublicCheck ==
  /\ req.state = "Start"
  /\ req' = IF RoutePublic(req.route)
              THEN [req EXCEPT !.state = "Admitted", !.handlerInvoked = TRUE]
              ELSE [req EXCEPT !.state = "AuthenticationCheck"]
  /\ UNCHANGED <<tables, nextId, tx, pc, op, arg, loc, res, tokens, now, edge, calls,
                 hist>>

\* JwtAuthGuard, second half: the token is resolved to a principal or the
\* request is answered 401
ReqAuthenticationCheck ==
  /\ req.state = "AuthenticationCheck"
  /\ LET principal == IF JwtVerified(req.header)
                        THEN JwtStrategyValidate(req.header.token)
                        ELSE NoPrincipal
         subject == {u \in users : u.id = req.header.token.sub}
     IN req' = [req EXCEPT !.tokenInspected = TRUE,
                           !.authTime = now,
                           !.subjectGone = (subject = {}),
                           !.storeRole = IF subject = {} THEN "none"
                                         ELSE (CHOOSE u \in subject : TRUE).role,
                           !.principal = principal,
                           !.state = IF principal = NoPrincipal
                                       THEN "Unauthorized" ELSE "RoleCheck"]
  /\ UNCHANGED <<tables, nextId, tx, pc, op, arg, loc, res, tokens, now, edge, calls,
                 hist>>

\* RolesGuard: without required roles the request passes; with them the
\* principal's role must be one of them, else 403
ReqRoleCheck ==
  /\ req.state = "RoleCheck"
  /\ req' = IF RouteRoles(req.route) = {}
              THEN [req EXCEPT !.state = "Admitted", !.handlerInvoked = TRUE]
              ELSE IF req.principal.role \in RouteRoles(req.route)
                THEN [req EXCEPT !.state = "Admitted", !.roleChecked = TRUE,
                                 !.handlerInvoked = TRUE]
                ELSE [req EXCEPT !.state = "Forbidden", !.roleChecked = TRUE]
  /\ UNCHANGED <<tables, nextId, tx, pc, op, arg, loc, res, tokens, now, edge, calls,
                 hist>>

\* @CurrentUser(): request.user, the principal the strategy attached
CurrentUser(r) == r.principal

\* GET /auth/me: the handler returns the principal
AuthControllerGetCurrentUser ==
  /\ req.state = "Admitted" /\ req.route = "me" /\ ~req.handled
  /\ req' = [req EXCEPT !.handled = TRUE,
                        !.observed = CurrentUser(req).id,
                        !.response = [NoRes EXCEPT !.status = 200,
                                                   !.message = "ok",
                                                   !.user = CurrentUser(req)]]
  /\ UNCHANGED <<tables, nextId, tx, pc, op, arg, loc, res, tokens, now, edge,
                 calls, hist>>

\* AuthService.getProfile: user.findUnique({id}) selecting id, email, role
\* and the profile; null when the row is gone
getProfile(userId) ==
  LET found == {u \in users : u.id = userId} IN
  IF found = {} THEN NoPrincipal
  ELSE LET user == CHOOSE u \in found : TRUE IN
       [id |-> user.id, email |-> user.email, role |-> user.role]

\* GET /auth/profile: getProfile(user.id), 401 when the row is gone
AuthControllerGetProfile ==
  /\ req.state = "Admitted" /\ req.route = "profile" /\ ~req.handled
  /\ LET user == getProfile(CurrentUser(req).id) IN
     req' = [req EXCEPT !.handled = TRUE,
                        !.observed = CurrentUser(req).id,
                        !.response =
                           IF user = NoPrincipal
                             THEN [NoRes EXCEPT !.status = 401,
                                                !.message = "User not found"]
                             ELSE [NoRes EXCEPT !.status = 200,
                                                !.message = "ok",
                                                !.user = user]]
  /\ UNCHANGED <<tables, nextId, tx, pc, op, arg, loc, res, tokens, now, edge,
                 calls, hist>>

\* refreshToken signs the id of the profile row instead of the user's
refreshToken_OfProfile(userId) ==
  LET found == {u \in users : u.id = userId} IN
  IF found = {} THEN NoToken
  ELSE LET user == CHOOSE u \in found : TRUE
           rows == {s.id : s \in {x \in students : x.userId = user.id}}
                     \cup {x.id : x \in {y \in teachers : y.userId = user.id}}
       IN generateToken(IF rows = {} THEN NoId ELSE CHOOSE i \in rows : TRUE,
                        user.email, user.role)

\* AuthService.refreshToken: user.findUnique({id}), then a token for the
\* row's id, email and role; null (UnauthorizedException) when it is gone
refreshToken(userId) ==
  LET found == {u \in users : u.id = userId} IN
  IF found = {} THEN NoToken
  ELSE LET user == CHOOSE u \in found : TRUE IN
       generateToken(user.id, user.email, user.role)

\* POST /auth/refresh: the handler answers {accessToken} and writes nothing;
\* a refresh is one of the calls of the behaviour
AuthControllerRefreshToken ==
  /\ req.state = "Admitted" /\ req.route = "refresh" /\ ~req.handled
  /\ calls < MaxCalls
  /\ calls' = calls + 1
  /\ LET accessToken == refreshToken(CurrentUser(req).id) IN
     IF accessToken = NoToken
       THEN /\ req' = [req EXCEPT !.handled = TRUE,
                                  !.observed = CurrentUser(req).id,
                                  !.response =
                                     [NoRes EXCEPT !.status = 401,
                                                   !.message = "User not found"]]
            /\ UNCHANGED tokens
       ELSE /\ req' = [req EXCEPT !.handled = TRUE,
                                  !.observed = CurrentUser(req).id,
                                  !.response =
                                     [NoRes EXCEPT !.status = 200,
                                                   !.message = "ok",
                                                   !.token = accessToken],
                                  !.refreshed =
                                     @ \cup {<<req.header.token, accessToken>>}]
            /\ tokens' = tokens \cup {accessToken}
  /\ UNCHANGED <<tables, nextId, tx, pc, op, arg, loc, res, now, edge, hist>>

\* time passes
Tick ==
  /\ now < MaxTime
  /\ now' = now + 1
  /\ UNCHANGED <<tables, nextId, tx, pc, op, arg, loc, res, tokens, calls, hist,
                 req, edge>>

\* one account of each role can be registered, and accounts removed
GuardBodies ==
  {<<"e1", "P1", "STUDENT", "s1", "c1">>, <<"e1", "P1", "TEACHER", NoCode, NoClass>>,
   <<"e1", "P1", "ADMIN", NoCode, NoClass>>}

NextGuard ==
  \/ ReqStart
  \/ ReqPublicCheck
  \/ ReqAuthenticationCheck
  \/ ReqRoleCheck
  \/ Tick
  \/ \E p \in {1} :
       \/ RegisterBegin(p, GuardBodies)
       \/ RegisterCheckEmail(p)
       \/ RegisterCheckCode(p)
       \/ RegisterCheckClassroom(p)
       \/ RegisterSign(p)
       \/ StudentsRemoveBegin(p)
       \/ StudentsRemoveFind(p)
       \/ TeachersRemoveBegin(p)
       \/ TeachersRemoveFind(p)
       \/ TxCreateUser(p)
       \/ TxCreateStudent(p)
       \/ TxCreateTeacher(p)
       \/ TxDeleteStudent(p)
       \/ TxDeleteTeacher(p)
       \/ TxDeleteUser(p)
       \/ TxCommit(p)

SpecGuard == Init /\ [][NextGuard]_vars

\* ---- tokens in use ---------------------------------------------------------
\* the protected routes a token is presented on
TokenRoutes == {"me", "profile", "refresh"}

\* a request carries no Authorization or a token the service has signed
TokenHeaders == {NoHeader} \cup {[kind |-> "jwt", token |-> t] : t \in tokens}

\* a student or an administrator registers; e0, t0 and e1 log in
TokenBodies ==
  {<<"e1", "P1", "STUDENT", "s1", "c1">>, <<"e1", "P1", "ADMIN", NoCode, NoClass>>}

TokenLoginBodies == {<<"e0", "P1">>, <<"e1", "P1">>}

\* the account change made while a token is in use
TokenUpdateBodies == {<<"s1", "c1">>}

NextToken ==
  \/ ReqStartOn(TokenRoutes, TokenHeaders)
  \/ ReqPublicCheck
  \/ ReqAuthenticationCheck
  \/ ReqRoleCheck
  \/ AuthControllerGetCurrentUser
  \/ AuthControllerGetProfile
  \/ AuthControllerRefreshToken
  \/ Tick
  \/ \E p \in {1} :
       \/ RegisterBegin(p, TokenBodies)
       \/ RegisterCheckEmail(p)
       \/ RegisterCheckCode(p)
       \/ RegisterCheckClassroom(p)
       \/ RegisterSign(p)
       \/ LoginBegin(p, TokenLoginBodies)
       \/ LocalAuthGuard(p)
       \/ LocalStrategyValidate(p)
       \/ LoginValidationPipe(p)
       \/ AuthServiceLogin(p)
       \/ StudentsUpdateBegin(p, TokenUpdateBodies)
       \/ StudentsUpdateFind(p)
       \/ StudentsUpdateCheckCode(p)
       \/ StudentsUpdateCheckClassroom(p)
       \/ StudentsUpdateWrite(p)
       \/ StudentsRemoveBegin(p)
       \/ StudentsRemoveFind(p)
       \/ TxCreateUser(p)
       \/ TxCreateStudent(p)
       \/ TxDeleteStudent(p)
       \/ TxDeleteUser(p)
       \/ TxCommit(p)

SpecToken == Init /\ [][NextToken]_vars

\* ---- process start -----------------------------------------------------------
\* the process starts with JWT_SECRET set, empty or absent from .env
InitBoot ==
  /\ users = SeedUsers
  /\ students = SeedStudents
  /\ teachers = SeedTeachers
  /\ classrooms = {"c1"}
  /\ subjects = {}
  /\ assignments = {}
  /\ nextId = 5
  /\ tx = [p \in Procs |-> EmptyTx]
  /\ pc = [p \in Procs |-> "idle"]
  /\ op = [p \in Procs |-> "none"]
  /\ arg = [p \in Procs |-> NoArg]
  /\ loc = [p \in Procs |-> NoLoc]
  /\ res = [p \in Procs |-> NoRes]
  /\ tokens = {}
  /\ now = 0
  /\ calls = 0
  /\ hist = [p \in Procs |-> NoHist]
  /\ req = NoReq
  /\ boot \in {[JWT_SECRET |-> v, state |-> "starting", secretOrKey |-> "none"] :
                 v \in {"configured", "", "unset"}}
  /\ dto = NoDto

BootRoutes == {"health", "me", "admin-test"}

\* no Authorization, or claims of an account signed with DefaultSecret by
\* somebody who read the source
BootHeaders ==
  {NoHeader}
    \cup {[kind |-> "default", token |-> generateToken(u.id, u.email, u.role)] :
            u \in users}

NextBoot ==
  \/ JwtStrategyConstructor
  \/ ReqStartOn(BootRoutes, BootHeaders)
  \/ ReqPublicCheck
  \/ ReqAuthenticationCheck
  \/ ReqRoleCheck
  \/ AuthControllerGetCurrentUser
  \/ Tick

SpecBoot == InitBoot /\ [][NextBoot]_vars

\* ---- the password of a register body -----------------------------------------
\* a character is a lowercase letter, an uppercase letter, a digit, one of
\* @$!%*?& or anything else on the same line (a space, #, ...)
CharClasses == {"lower", "upper", "digit", "special", "other"}

\* (?=.*[...]) at the start of the string: a character of the class follows
\* somewhere
Lookahead(password, class) ==
  \E i \in 1..Len(password) : password[i] = class

\* /^(?=.*[a-z])(?=.*[A-Z])(?=.*\d)(?=.*[@$!%*?&])[A-Za-z\d@$!%*?&]/ : the
\* four lookaheads, then one character of the bracket, the first of the
\* string; nothing anchors the end
Matches(password) ==
  /\ Lookahead(password, "lower") /\ Lookahead(password, "upper")
  /\ Lookahead(password, "digit") /\ Lookahead(password, "special")
  /\ Len(password) >= 1
  /\ password[1] \in {"lower", "upper", "digit", "special"}

\* RegisterDto.password: @IsString @IsNotEmpty @MinLength(8) @Matches(...)
RegisterDtoPassword(password) ==
  /\ Len(password) # 0
  /\ Len(password) >= MinLength
  /\ Matches(password)

\* the ValidationPipe of the register route validates the password
RegisterValidationPipe ==
  /\ dto.stage = "received"
  /\ dto' = [dto EXCEPT !.stage = "validated",
                        !.accepted = RegisterDtoPassword(dto.password)]
  /\ UNCHANGED <<tables, nextId, tx, pc, op, arg, loc, res, tokens, now, calls,
                 hist, req, boot>>

Passwords == UNION {[1..n -> CharClasses] : n \in 0..MaxPasswordLen}

\* a register body arrives with any password of at most MaxPasswordLen
\* characters
InitPassword ==
  /\ users = SeedUsers
  /\ students = SeedStudents
  /\ teachers = SeedTeachers
  /\ classrooms = {"c1"}
  /\ subjects = {}
  /\ assignments = {}
  /\ nextId = 5
  /\ tx = [p \in Procs |-> EmptyTx]
  /\ pc = [p \in Procs |-> "idle"]
  /\ op = [p \in Procs |-> "none"]
  /\ arg = [p \in Procs |-> NoArg]
  /\ loc = [p \in Procs |-> NoLoc]
  /\ res = [p \in Procs |-> NoRes]
  /\ tokens = {}
  /\ now = 0
  /\ calls = 0
  /\ hist = [p \in Procs |-> NoHist]
  /\ req = NoReq
  /\ boot = Booted
  /\ dto \in {[password |-> w, stage |-> "received", accepted |-> FALSE] :
                w \in Passwords}

NextPassword == RegisterValidationPipe

SpecPassword == InitPassword /\ [][NextPassword]_vars

\* ---- properties of account provisioning ----------------------------------
\* the body meets every precondition of register but, possibly, the free email
OtherwiseValid(a) ==
  a.role = "STUDENT" =>
    /\ a.studentCode # NoCode
    /\ a.classroomId \in classrooms
    /\ a.studentCode \notin {s.studentCode : s \in SeedStudents}

\* p and q have both answered register calls for one email, free when each
\* began, that ran concurrently and met no failure of the store or the signer
RacedOnEmail(p, q) ==
  /\ p # q
  /\ pc[p] = "done" /\ pc[q] = "done"
  /\ op[p] = "register" /\ op[q] = "register"
  /\ arg[p].email = arg[q].email
  /\ q \in hist[p].conc
  /\ hist[p].fresh /\ hist[q].fresh
  /\ ~hist[p].fault /\ ~hist[q].fault
  /\ OtherwiseValid(arg[p]) /\ OtherwiseValid(arg[q])

\* C1: of two concurrent register calls with the same email exactly one
\* answers 201 and the other answers 409 Conflict, and at most one identity
\* with that email exists afterwards.
C1_ConcurrentRegisterConflict ==
  \A p, q \in Procs :
    RacedOnEmail(p, q) =>
      /\ {res[p].status, res[q].status} = {201, 409}
      /\ Cardinality({u \in users : u.email = arg[p].email}) <= 1

\* the step adds to the tables exactly the identity of p's body and the
\* profile of its role, owned by that identity
RegisteredExactly(p) ==
  \E u \in users' \ users :
    /\ users' = users \cup {u}
    /\ u.email = arg[p].email /\ u.role = arg[p].role
    /\ classrooms' = classrooms /\ subjects' = subjects
    /\ assignments' = assignments
    /\ CASE u.role = "STUDENT" ->
              /\ teachers' = teachers
              /\ \E s \in students' \ students :
                   students' = students \cup {s} /\ s.userId = u.id
         [] u.role = "TEACHER" ->
              /\ students' = students
              /\ \E x \in teachers' \ teachers :
                   teachers' = teachers \cup {x} /\ x.userId = u.id
         [] OTHER -> students' = students /\ teachers' = teachers

\* C2: every step of a register call either leaves the committed tables as
\* they are or adds, in that one step, exactly one identity for the email
\* together with the one profile of its role; no other call can see an
\* identity whose profile is still to be written.
C2_RegisterAtomic ==
  [][\A p \in Procs :
       (Active(p) /\ op[p] = "register" /\ pc'[p] # pc[p]) =>
         (tables' = tables \/ RegisteredExactly(p))]_vars

\* a STUDENT registration has committed its identity and its profile, and a
\* transaction of a register call has aborted at its second write
C2_Witness ==
  \E p \in Procs :
    /\ op[p] = "register" /\ pc[p] = "done" /\ res[p].status = 201
    /\ arg[p].role = "STUDENT"
    /\ hist[p].created.users # {} /\ hist[p].created.students # {}

ProfilesOf(u) ==
  [student |-> {s \in students : s.userId = u.id},
   teacher |-> {x \in teachers : x.userId = u.id}]

\* C3 (invariant I1): every STUDENT identity owns exactly one student profile
\* and no teacher profile, every TEACHER identity exactly one teacher profile
\* and no student profile, every ADMIN identity no profile.
C3_ProfileMatchesRole ==
  \A u \in users :
    /\ Cardinality(ProfilesOf(u).student) = (IF u.role = "STUDENT" THEN 1 ELSE 0)
    /\ Cardinality(ProfilesOf(u).teacher) = (IF u.role = "TEACHER" THEN 1 ELSE 0)

\* an ADMIN registered with studentCode and classroomId in the body
C3_Witness ==
  \E p \in Procs :
    /\ op[p] = "register" /\ pc[p] = "done" /\ res[p].status = 201
    /\ arg[p].role = "ADMIN" /\ arg[p].studentCode # NoCode
    /\ \E u \in users : u.id \in hist[p].created.users /\ u.role = "ADMIN"

\* C4 (invariant I2): no two identities share an email and no two student
\* profiles share a student code.
C4_UniqueEmailAndCode ==
  /\ \A u, v \in users : u.email = v.email => u = v
  /\ \A s, t \in students : s.studentCode = t.studentCode => s = t

\* a write that passed its pre-checks was refused by a unique index: a
\* transaction rolled back without a store failure, or update got its 500
C4_Witness ==
  \E p \in Procs :
    /\ pc[p] = "done" /\ ~hist[p].fault
    /\ \/ /\ op[p] \in {"register", "sCreate"}
          /\ res[p].message = FailureMessage(op[p])
          /\ \E s \in students : s.studentCode = arg[p].studentCode
       \/ op[p] = "sUpdate" /\ res[p].status = 500

PreconditionFailures ==
  {"User with this email already exists",
   "Student code is required for student registration",
   "Classroom ID is required for student registration",
   "Student with this student code already exists",
   "Classroom not found"}

\* C10: a register call that answers one of its precondition failures has
\* written nothing: the step that answers leaves the tables and the issued
\* tokens as they are, the call holds no pending write, has committed
\* nothing before, and its response carries no token.
C10_FailedPreconditionWritesNothing ==
  [][\A p \in Procs :
       (/\ Active(p) /\ op[p] = "register" /\ pc'[p] = "done"
        /\ res'[p].message \in PreconditionFailures) =>
         /\ tables' = tables /\ tokens' = tokens
         /\ tx[p] = EmptyTx /\ tx'[p] = EmptyTx
         /\ ~hist[p].wrote
         /\ res'[p].token = NoToken]_vars

\* the last precondition failed: the classroom of the body does not exist
C10_Witness ==
  \E p \in Procs :
    /\ op[p] = "register" /\ pc[p] = "done"
    /\ res[p].status = 400 /\ res[p].message = "Classroom not found"

\* ---- properties of the guard chain -----------------------------------------
Terminal == {"Admitted", "Unauthorized", "Forbidden"}

\* C5: a request on a non-public route that presents a signed token whose
\* identity had been deleted when the request arrived is answered 401 and
\* its handler is not invoked, expired or not.
C5_StaleTokenRejected ==
  (/\ req.state \in Terminal \cup {"RoleCheck"}
   /\ ~RoutePublic(req.route)
   /\ req.header.kind = "jwt" /\ req.stale) =>
     (req.state = "Unauthorized" /\ ~req.handlerInvoked)

\* the token of a deleted identity was refused before its expiry
C5_Witness ==
  /\ req.state = "Unauthorized" /\ ~RoutePublic(req.route)
  /\ req.header.kind = "jwt" /\ req.stale
  /\ req.header.token \in tokens
  /\ req.authTime < req.header.token.exp

GuardTransitions ==
  {<<from, "Start">> : from \in Terminal \cup {"none"}}
    \cup {<<"Start", "Admitted">>, <<"Start", "AuthenticationCheck">>,
          <<"AuthenticationCheck", "Unauthorized">>,
          <<"AuthenticationCheck", "RoleCheck">>,
          <<"RoleCheck", "Forbidden">>, <<"RoleCheck", "Admitted">>}

\* the request r carries no token, or one that cannot be resolved: garbled,
\* signed with another key, expired when the chain looked at it, or of an
\* identity the store no longer had then
ResolutionFails(r) ==
  \/ r.header.kind \in {"none", "garbled", "badsig"}
  \/ /\ r.header.kind = "jwt"
     /\ r.authTime >= r.header.token.exp \/ r.subjectGone

\* C6: a request moves through the chain only by the listed transitions,
\* and on a non-public route a request without a resolvable token ends in
\* Unauthorized: never in Forbidden, without the role check and without its
\* handler.
C6_UnresolvedIsUnauthorized ==
  [][/\ req' # req => <<req.state, req'.state>> \in GuardTransitions
     /\ (/\ ~RoutePublic(req'.route)
         /\ req'.state \in Terminal \cup {"RoleCheck"}
         /\ ResolutionFails(req')) =>
           /\ req'.state = "Unauthorized"
           /\ ~req'.roleChecked /\ ~req'.handlerInvoked]_vars

\* the token of an existing identity was refused because it had expired
C6_Witness ==
  /\ req.state = "Unauthorized" /\ req.header.kind = "jwt"
  /\ ~req.subjectGone /\ req.authTime >= req.header.token.exp
  /\ RouteRoles(req.route) # {}

\* C7: on a route with required roles an authenticated request is admitted
\* exactly when the role the store holds for its identity is one of them and
\* is answered 403 otherwise; without required roles it is admitted;
\* admin-test admits ADMIN only, teacher-test TEACHER and ADMIN.
C7_RoleDecides ==
  (/\ req.state \in Terminal /\ ~RoutePublic(req.route)
   /\ ~ResolutionFails(req)) =>
     /\ req.state \in {"Admitted", "Forbidden"}
     /\ RouteRoles(req.route) = {} => req.state = "Admitted"
     /\ RouteRoles(req.route) # {} =>
          (req.state = "Admitted" <=> req.storeRole \in RouteRoles(req.route))
     /\ req.route = "admin-test" =>
          (req.state = "Admitted" <=> req.storeRole = "ADMIN")
     /\ req.route = "teacher-test" =>
          (req.state = "Admitted" <=> req.storeRole \in {"TEACHER", "ADMIN"})
     /\ req.route = "me" => req.state = "Admitted"

\* a student was answered 403 on teacher-test
C7_Witness ==
  /\ req.state = "Forbidden" /\ req.route = "teacher-test"
  /\ req.storeRole = "STUDENT" /\ req.roleChecked

\* C8: a request to register or health is admitted whatever it carries as
\* Authorization, and the chain does not look at the token.
C8_PublicAdmitted ==
  (req.route \in {"register", "health"} /\ req.state # "Start") =>
    /\ req.state = "Admitted"
    /\ ~req.tokenInspected /\ req.handlerInvoked

\* health admitted a request carrying the token of a deleted identity
C8_Witness ==
  /\ req.state = "Admitted" /\ req.route = "health"
  /\ req.header.kind = "jwt" /\ req.stale

\* ---- properties of login ---------------------------------------------------
InvalidCredentials ==
  [status |-> 401, message |-> "Invalid email or password", token |-> NoToken,
   user |-> NoPrincipal]

\* C9: a login for an email the store does not hold and a login with a
\* wrong password for an email it holds get the same response, 401 with one
\* message, whether the strategy or the handler found the failure.
C9_LoginFailuresAlike ==
  \A p \in Procs :
    (/\ op[p] = "login" /\ pc[p] = "done"
     /\ \/ ~hist[p].known
        \/ arg[p].password # SeedPassword
        \/ res[p].status \notin {200, 500}) =>
      res[p] = InvalidCredentials

\* one login failed on an unregistered email, another on a wrong password
C9_Witness ==
  \E p, q \in Procs :
    /\ op[p] = "login" /\ pc[p] = "done" /\ ~hist[p].known
    /\ op[q] = "login" /\ pc[q] = "done" /\ hist[q].known
    /\ arg[q].password # SeedPassword
    /\ res[p].status = 401 /\ res[q].status = 401

\* ---- properties of tokens in use ------------------------------------------
\* the claims a token carries, as a principal
ClaimsOf(t) == [id |-> t.sub, email |-> t.email, role |-> t.role]

\* the chain has looked at the token of the request r and resolved it
Authenticated(r) ==
  r.tokenInspected /\ r.state \in {"RoleCheck", "Admitted", "Forbidden"}

\* the call of p answers with a token in this step
Issues(p) == pc[p] # "done" /\ pc'[p] = "done" /\ res'[p].token # NoToken

\* C11: the token a successful register or login returns carries the id,
\* email and role of the identity just created or authenticated, as does
\* the identity summary beside it; presented at once on a protected route it
\* is resolved, the principal is that identity, and the handler observes
\* exactly that id.
C11_TokenResolvesToIdentity ==
  [][/\ \A p \in Procs :
          Issues(p) =>
            /\ res'[p].user = ClaimsOf(res'[p].token)
            /\ \E u \in users : /\ ClaimsOf(res'[p].token) = sanitizeUser(u)
                                /\ u.email = arg[p].email
                                /\ op[p] = "register" =>
                                     /\ u.id \in hist[p].created.users
                                     /\ u.role = arg[p].role
     /\ (/\ req'.header.kind = "jwt" /\ req'.tokenInspected
         /\ req'.authTime = req'.header.token.iat /\ ~req'.subjectGone) =>
           /\ Authenticated(req')
           /\ req'.principal = ClaimsOf(req'.header.token)
           /\ req'.handled => req'.observed = req'.header.token.sub]_vars

\* the token of a registration, presented in the tick of its issue, reached
\* the profile handler, which saw the id of the identity just created
C11_Witness ==
  /\ op[1] = "register" /\ pc[1] = "done" /\ res[1].status = 201
  /\ req.header = [kind |-> "jwt", token |-> res[1].token]
  /\ req.route = "profile" /\ req.handled /\ req.response.status = 200
  /\ req.authTime = res[1].token.iat
  /\ req.observed \in hist[1].created.users

\* C12: a token issued at t expires at t + TokenLifetime; presented on a
\* non-public route at or after that time it is answered 401, and before it
\* the request passes authentication whenever the identity of its subject
\* still exists, whatever else was changed on the account in between.
C12_ExpiryDecides ==
  (/\ req.header.kind = "jwt" /\ req.tokenInspected
   /\ ~RoutePublic(req.route)) =>
     LET t == req.header.token IN
     /\ t.exp = t.iat + TokenLifetime
     /\ req.authTime >= t.iat + TokenLifetime => req.state = "Unauthorized"
     /\ (req.authTime < t.iat + TokenLifetime /\ ~req.subjectGone) =>
          Authenticated(req)

\* the token of student e0 passed after the student's code had been changed,
\* one tick before its expiry
C12_Witness ==
  /\ req.header.kind = "jwt" /\ Authenticated(req)
  /\ req.header.token.email = "e0"
  /\ req.authTime = req.header.token.exp - 1
  /\ op[1] = "sUpdate" /\ pc[1] = "done" /\ res[1].status = 200
  /\ \E s \in students : s.userId = req.header.token.sub /\ s.studentCode = "s1"

\* the refresh handler answers in this step
Refreshes == req.route = "refresh" /\ ~req.handled /\ req'.handled

\* C13: a refresh writes nothing to the store and takes no token back; the
\* token T2 it returns carries the claims of the presented token T1 and its
\* own expiry; afterwards T1 and T2 are each accepted on protected routes
\* until their own expiry (while the identity exists), however many
\* refreshes were made.
C13_RefreshKeepsTokens ==
  [][/\ Refreshes => (tables' = tables /\ tokens \subseteq tokens')
     /\ \A pair \in req'.refreshed :
          /\ ClaimsOf(pair[2]) = ClaimsOf(pair[1])
          /\ pair[2].exp = pair[2].iat + TokenLifetime
          /\ pair[2] \in tokens' /\ pair[1] \in tokens'
          /\ \A t \in {pair[1], pair[2]} :
               (req'.header = [kind |-> "jwt", token |-> t]
                  /\ req'.tokenInspected) =>
                 (req'.state = "Unauthorized" <=>
                    (req'.authTime >= t.exp \/ req'.subjectGone))]_vars

\* T1 was accepted, and its handler ran, after a refresh had returned the
\* later token T2
C13_Witness ==
  \E pair \in req.refreshed :
    /\ pair[1].iat < pair[2].iat
    /\ req.header.kind = "jwt" /\ req.header.token = pair[1]
    /\ Authenticated(req) /\ req.authTime >= pair[2].iat
    /\ req.handled /\ req.response.status = 200

\* ---- properties of the process start ----------------------------------------
\* C14: a process started without JWT_SECRET does not come up: it never
\* accepts a token, and no token verified under the built-in default secret
\* is ever admitted.
C14_MissingSecretIsFatal ==
  /\ boot.JWT_SECRET = "unset" => ~Authenticated(req)
  /\ req.header.kind = "default" => ~Authenticated(req)

\* ---- properties of what leaves the service ---------------------------------
\* the object r has a password field
CarriesPassword(r) == "password" \in DOMAIN r

\* C15: no response of register, login, me, profile or refresh, successful
\* or not, carries the password hash of an identity, and neither does the
\* principal LocalStrategy or JwtStrategy attaches to the request.
C15_HashNeverLeaves ==
  /\ \A p \in Procs :
       /\ ~CarriesPassword(res[p].user) /\ ~CarriesPassword(res[p].token)
       /\ ~CarriesPassword(loc[p].principal)
  /\ ~CarriesPassword(req.principal)
  /\ ~CarriesPassword(req.response.user) /\ ~CarriesPassword(req.response.token)

\* a registration has answered the summary of its new identity, whose row
\* holds a hash, and me has answered the principal of that identity
C15_Witness ==
  /\ op[1] = "register" /\ pc[1] = "done" /\ res[1].status = 201
  /\ \E u \in users : u.id = res[1].user.id /\ CarriesPassword(u)
  /\ req.route = "me" /\ req.handled
  /\ req.response.user = res[1].user

\* ---- properties of concurrent registrations --------------------------------
\* p and q have both answered STUDENT registrations with different free
\* emails and one student code, that ran concurrently, were valid otherwise
\* and met no failure of the store or the signer
RacedOnCode(p, q) ==
  /\ p # q
  /\ pc[p] = "done" /\ pc[q] = "done"
  /\ op[p] = "register" /\ op[q] = "register"
  /\ arg[p].role = "STUDENT" /\ arg[q].role = "STUDENT"
  /\ arg[p].email # arg[q].email
  /\ arg[p].studentCode = arg[q].studentCode
  /\ q \in hist[p].conc
  /\ hist[p].fresh /\ hist[q].fresh
  /\ ~hist[p].fault /\ ~hist[q].fault
  /\ OtherwiseValid(arg[p]) /\ OtherwiseValid(arg[q])

\* C16: of two concurrent STUDENT registrations with different emails and
\* the same student code exactly one answers 201 and the other answers 409
\* Conflict, and the one refused leaves neither an identity nor a profile.
C16_ConcurrentCodeConflict ==
  \A p, q \in Procs :
    RacedOnCode(p, q) =>
      /\ {res[p].status, res[q].status} = {201, 409}
      /\ \A r \in {p, q} :
           res[r].status # 201 =>
             /\ ~\E u \in users : u.email = arg[r].email
             /\ hist[r].created.users = {} /\ hist[r].created.students = {}

\* ---- properties of login bodies ---------------------------------------------
\* C17: a login whose body is malformed (an email that is no address, a
\* password that is missing or empty) is answered 400, and a well-formed one
\* with wrong credentials is answered 401.
C17_MalformedLoginIs400 ==
  \A p \in Procs :
    (op[p] = "login" /\ pc[p] = "done") =>
      /\ ~LoginDtoValid(arg[p]) => res[p].status = 400
      /\ (/\ LoginDtoValid(arg[p])
          /\ validateUser(arg[p].email, arg[p].password) = NoPrincipal) =>
            res[p].status = 401

\* ---- properties of register's preconditions ---------------------------------
ClassroomRequired ==
  [status |-> 400,
   message |-> "Classroom ID is required for student registration",
   token |-> NoToken, user |-> NoPrincipal]

\* C18 as stated: every STUDENT registration without classroomId is answered
\* 400 with the message that the classroom id is required, and creates no
\* identity.
C18_NoClassroomIs400 ==
  \A p \in Procs :
    (/\ op[p] = "register" /\ pc[p] = "done"
     /\ arg[p].role = "STUDENT" /\ arg[p].classroomId = NoClass) =>
      /\ res[p] = ClassroomRequired
      /\ hist[p].created.users = {}

\* C18 as amended: a STUDENT registration without classroomId writes nothing
\* and is refused with 400 or 409; when its email is not registered and it
\* carries a studentCode, the answer is 400 with the message that the
\* classroom id is required.
C18_NoClassroomRefused ==
  [][\A p \in Procs :
       (/\ op[p] = "register" /\ pc[p] # "done" /\ pc'[p] = "done"
        /\ arg[p].role = "STUDENT" /\ arg[p].classroomId = NoClass) =>
         /\ tables' = tables /\ tx[p] = EmptyTx /\ ~hist[p].wrote
         /\ hist'[p].created.users = {}
         /\ res'[p].status \in {400, 409} /\ res'[p].token = NoToken
         /\ (~EmailTaken(arg[p].email) /\ arg[p].studentCode # NoCode) =>
              res'[p] = ClassroomRequired]_vars

\* a STUDENT registration with a free email and a student code, without
\* classroomId, was answered that the classroom id is required
C18_Witness ==
  \E p \in Procs :
    /\ op[p] = "register" /\ pc[p] = "done"
    /\ arg[p].role = "STUDENT" /\ arg[p].classroomId = NoClass
    /\ arg[p].studentCode # NoCode /\ hist[p].fresh
    /\ res[p] = ClassroomRequired

\* ---- properties of removal ---------------------------------------------------
\* the step removes from the tables exactly the profile p was asked to
\* remove and the identity that owns it
RemovedExactly(p) ==
  \E u \in users :
    /\ u.id = loc[p].userId /\ users' = users \ {u}
    /\ classrooms' = classrooms /\ subjects' = subjects
    /\ IF op[p] = "sRemove"
         THEN /\ \E s \in students :
                   /\ s.id = arg[p].id /\ s.userId = u.id
                   /\ students' = students \ {s}
              /\ teachers' = teachers /\ assignments' = assignments
         ELSE /\ \E x \in teachers :
                   /\ x.id = arg[p].id /\ x.userId = u.id
                   /\ teachers' = teachers \ {x}
                   /\ assignments' =
                        {a \in assignments : a.teacherId # x.id}
              /\ students' = students

\* C19: every step of StudentsService.remove and TeachersService.remove
\* leaves the tables as they are or removes the profile and its identity in
\* that one step, whether the call succeeds, fails at either delete or runs
\* beside another remove of the same id; no profile is ever left without
\* its identity, and no identity of a profile's role without its profile.
C19_RemoveAtomic ==
  [][/\ \A p \in Procs :
          (Active(p) /\ op[p] \in {"sRemove", "tRemove"} /\ pc'[p] # pc[p]) =>
            (tables' = tables \/ RemovedExactly(p))
     /\ \A s \in students' : \E u \in users' : u.id = s.userId
     /\ \A x \in teachers' : \E u \in users' : u.id = x.userId
     /\ \A u \in users' :
          /\ u.role = "STUDENT" => \E s \in students' : s.userId = u.id
          /\ u.role = "TEACHER" => \E x \in teachers' : x.userId = u.id]_vars

\* two concurrent removes of one student: one answered 200, the other 400
\* after waiting for the first, and the profile and its identity are gone
C19_Witness ==
  \E p, q \in Procs :
    /\ p # q /\ op[p] = "sRemove" /\ op[q] = "sRemove"
    /\ arg[p].id = arg[q].id /\ q \in hist[p].conc
    /\ pc[p] = "done" /\ pc[q] = "done"
    /\ res[p].status = 200 /\ res[q].status = 400 /\ ~hist[q].fault
    /\ ~\E s \in students : s.id = arg[p].id
    /\ ~\E u \in users : u.id = loc[p].userId

\* ---- properties of the password rule ------------------------------------------
\* C20: RegisterDto accepts a password exactly when it has at least 8
\* characters and holds an uppercase letter, a lowercase letter, a digit and
\* one of @$!%*?&.
C20_PasswordRule ==
  dto.stage = "validated" =>
    (dto.accepted <=>
       /\ Len(dto.password) >= 8
       /\ \E i \in 1..Len(dto.password) : dto.password[i] = "upper"
       /\ \E i \in 1..Len(dto.password) : dto.password[i] = "lower"
       /\ \E i \in 1..Len(dto.password) : dto.password[i] = "digit"
       /\ \E i \in 1..Len(dto.password) : dto.password[i] = "special")

\* ---- properties of login after registration ----------------------------------
\* the call of p, which met no failure of the signer, answers in this step
Answers(p, o) ==
  op[p] = o /\ pc[p] # "done" /\ pc'[p] = "done" /\ ~hist'[p].fault

\* the identities registered with this email and this password
RegisteredWith(email, password) ==
  {u \in users : u.email = email /\ u.password = hashPassword(password)}

\* C21: the identity a successful register(email, p) commits holds email and
\* the hash of p, and its token names that identity; from then on, while the
\* identity exists, a login with (email, p) answers 200 with a token for the
\* same id, and a login with the email and any other password, or for an
\* email without identity, answers 401.
C21_LoginAfterRegister ==
  [][\A p \in Procs :
       /\ (op[p] = "register" /\ pc[p] = "tx_commit" /\ pc'[p] = "r_sign") =>
            \E u \in users' \ users :
              /\ u \in RegisteredWith(arg[p].email, arg[p].password)'
              /\ u.id = loc[p].user.id
       /\ (Answers(p, "register") /\ res'[p].status = 201) =>
            res'[p].token.sub = loc[p].user.id
       /\ Answers(p, "login") =>
            LET mine == RegisteredWith(arg[p].email, arg[p].password) IN
            /\ mine # {} =>
                 /\ res'[p].status = 200
                 /\ \E u \in mine : res'[p].token.sub = u.id
                                    /\ res'[p].user.id = u.id
            /\ mine = {} =>
                 /\ res'[p].status = 401 /\ res'[p].token = NoToken]_vars

\* e1 was registered with P2 in this behaviour and a login with (e1, P2)
\* has answered a token for the id of that identity
C21_Witness ==
  \E p \in Procs :
    /\ op[p] = "login" /\ pc[p] = "done" /\ res[p].status = 200
    /\ arg[p].email = "e1" /\ arg[p].password = "P2"
    /\ \E u \in users : /\ u.email = "e1" /\ u.id \notin {v.id : v \in SeedUsers}
                        /\ res[p].token.sub = u.id

\* ---- properties of the order of register's preconditions ----------------------
\* the first precondition of register the body a fails in the listed order,
\* as the store is now; "none" when it meets them all
FirstFailure(a) ==
  IF \E u \in users : u.email = a.email
    THEN [status |-> 409, message |-> "User with this email already exists"]
  ELSE IF a.role # "STUDENT" THEN [status |-> 0, message |-> "none"]
  ELSE IF a.studentCode = NoCode
    THEN [status |-> 400,
          message |-> "Student code is required for student registration"]
  ELSE IF a.classroomId = NoClass
    THEN [status |-> 400,
          message |-> "Classroom ID is required for student registration"]
  ELSE IF \E s \in students : s.studentCode = a.studentCode
    THEN [status |-> 409,
          message |-> "Student with this student code already exists"]
  ELSE IF a.classroomId \notin classrooms
    THEN [status |-> 400, message |-> "Classroom not found"]
  ELSE [status |-> 0, message |-> "none"]

PreconditionPcs == {"r_email", "r_code", "r_class"}

\* C22: a register call answers the first of its preconditions that fails
\* in the order email-taken, studentCode-missing, classroomId-missing,
\* studentCode-taken, classroom-not-found, and opens its transaction only
\* when none fails (for a call no other call ran beside); a request whose
\* email is registered when register looks it up is answered 409 whatever
\* else it carries; and a TEACHER or ADMIN request with a free email goes
\* straight to the transaction, whatever studentCode and classroomId it
\* carries.
C22_PreconditionOrder ==
  [][\A p \in Procs :
       (op[p] = "register" /\ pc[p] \in PreconditionPcs /\ pc'[p] # pc[p]) =>
         /\ hist[p].conc = {} =>
              /\ pc'[p] = "done" =>
                   /\ res'[p].status = FirstFailure(arg[p]).status
                   /\ res'[p].message = FirstFailure(arg[p]).message
              /\ pc'[p] = "tx_user" => FirstFailure(arg[p]).message = "none"
              /\ FirstFailure(arg[p]).message # "none" =>
                   pc'[p] \in PreconditionPcs \cup {"done"}
         /\ (pc[p] = "r_email" /\ EmailTaken(arg[p].email)) =>
              /\ pc'[p] = "done" /\ res'[p].status = 409
              /\ res'[p].message = "User with this email already exists"
         /\ (pc[p] = "r_email" /\ ~EmailTaken(arg[p].email)
               /\ arg[p].role # "STUDENT") => pc'[p] = "tx_user"
         /\ pc[p] \in {"r_code", "r_class"} => arg[p].role = "STUDENT"]_vars

\* a STUDENT request with a registered email and no studentCode was answered
\* 409, and an ADMIN request carrying the taken code s0 and the unknown
\* classroom c9 was answered 201
C22_Witness ==
  \E p, q \in Procs :
    /\ op[p] = "register" /\ pc[p] = "done" /\ arg[p].role = "STUDENT"
    /\ ~hist[p].fresh /\ arg[p].studentCode = NoCode /\ res[p].status = 409
    /\ op[q] = "register" /\ pc[q] = "done" /\ arg[q].role = "ADMIN"
    /\ arg[q].studentCode = "s0" /\ arg[q].classroomId = "c9"
    /\ res[q].status = 201

\* ---- properties of register against a failing store ---------------------------
\* C23: every register call ends with 201, a token and the identity summary,
\* or with 400, or with 409, whichever storage call of it failed; no other
\* status reaches the caller.
C23_RegisterErrorsClassified ==
  \A p \in Procs :
    (op[p] = "register" /\ pc[p] = "done") =>
      /\ res[p].status \in {201, 400, 409}
      /\ res[p].status = 201 =>
           (res[p].token # NoToken /\ res[p].user # NoPrincipal)

\* C27: when a register call answers a failure, no identity and no profile
\* that the call created is in the store.
C27_FailedRegisterLeavesNothing ==
  \A p \in Procs :
    (op[p] = "register" /\ pc[p] = "done" /\ res[p].status # 201) =>
      /\ ~\E u \in users : u.id \in hist[p].created.users
      /\ ~\E s \in students : s.id \in hist[p].created.students
      /\ ~\E x \in teachers : x.id \in hist[p].created.teachers

\* ---- properties of teaching assignments ----------------------------------------
\* the call of p answers in this step
Ends(p) == pc[p] # "done" /\ pc'[p] = "done"

\* the entity the remove call of p was asked to delete has an assignment
TargetAssigned(p) ==
  \E a \in assignments :
    CASE op[p] = "jRemove" -> a.subjectId = arg[p].subjectId
      [] op[p] = "cRemove" -> a.classroomId = arg[p].classroomId
      [] op[p] = "tRemove" -> a.teacherId = arg[p].id
      [] OTHER -> FALSE

\* C24: no step deletes a teacher, a subject or a classroom that has a
\* teaching assignment, no step removes an assignment, and a remove that
\* answers while its entity has an assignment answers 400.
C24_AssignedNeverDeleted ==
  [][/\ \A x \in teachers \ teachers' :
          ~\E a \in assignments : a.teacherId = x.id
     /\ \A j \in subjects \ subjects' :
          ~\E a \in assignments : a.subjectId = j
     /\ \A c \in classrooms \ classrooms' :
          ~\E a \in assignments : a.classroomId = c
     /\ {a.id : a \in assignments} \subseteq {a.id : a \in assignments'}
     /\ \A p \in Procs :
          (Ends(p) /\ TargetAssigned(p)) => res'[p].status = 400]_vars

AssignmentsUnique ==
  \A a, b \in assignments :
    (/\ a.teacherId = b.teacherId /\ a.subjectId = b.subjectId
     /\ a.classroomId = b.classroomId) => a = b

\* p and q have both answered create calls for one triple, absent when each
\* began, that ran concurrently and whose teacher, subject and classroom
\* exist
RacedOnTriple(p, q) ==
  /\ p # q
  /\ pc[p] = "done" /\ pc[q] = "done"
  /\ op[p] = "aCreate" /\ op[q] = "aCreate"
  /\ arg[p].teacherId = arg[q].teacherId
  /\ arg[p].subjectId = arg[q].subjectId
  /\ arg[p].classroomId = arg[q].classroomId
  /\ q \in hist[p].conc
  /\ hist[p].fresh /\ hist[q].fresh
  /\ ~teaching_assignments_fkeys(arg[p])

\* C25: no two teaching assignments share (teacherId, subjectId,
\* classroomId), and of two concurrent create calls for one triple exactly
\* one answers 201 and the other answers 409 Conflict.
C25_UniqueAssignment ==
  /\ AssignmentsUnique
  /\ \A p, q \in Procs :
       RacedOnTriple(p, q) => {res[p].status, res[q].status} = {201, 409}

\* ---- the resource routes behind the chain ----------------------------------
\* the routes a request is tried on: every resource route, the public
\* register route and admin-test
ResourceSpecRoutes == ResourceRouteNames \cup {"register", "admin-test"}

\* an administrator registers, and a student or a teacher beside it
ResourceBodies ==
  {<<"e1", "P1", "ADMIN", NoCode, NoClass>>,
   <<"e2", "P1", "STUDENT", "s1", "c1">>,
   <<"e2", "P1", "TEACHER", NoCode, NoClass>>}

\* POST /auth/register: the handler runs once the chain has admitted the
\* request, and hands the body to AuthService.register
AuthControllerRegister(p, bodies) ==
  /\ req.state = "Admitted" /\ req.route = "register"
  /\ RegisterBegin(p, bodies)

NextResource ==
  \/ ReqStartOn(ResourceSpecRoutes, TokenHeaders)
  \/ ReqPublicCheck
  \/ ReqAuthenticationCheck
  \/ ReqRoleCheck
  \/ \E p \in {1} :
       \/ AuthControllerRegister(p, ResourceBodies)
       \/ RegisterCheckEmail(p)
       \/ RegisterCheckCode(p)
       \/ RegisterCheckClassroom(p)
       \/ RegisterSign(p)
       \/ TxCreateUser(p)
       \/ TxCreateStudent(p)
       \/ TxCreateTeacher(p)
       \/ TxCommit(p)

SpecResource == Init /\ [][NextResource]_vars

\* the call of p is a register that starts in this step
RegisterStarts(p) == pc[p] \in {"idle", "done"} /\ pc'[p] = "r_email"

\* the routes only an administrator is admitted on
AdminOnlyRoutes == {r \in ResourceSpecRoutes : RouteRoles(r) = {"ADMIN"}}

\* C26: the register route admits every request without looking at a token,
\* so a register call starts for a caller without principal; a register with
\* role ADMIN answers 201 unless its email is taken, commits an identity of
\* role ADMIN and returns a token for it; and that token, presented on
\* admin-test or on a resource route restricted to ADMIN, is admitted.
C26_AnyoneRegistersAdmin ==
  [][/\ (req'.route = "register" /\ req'.state \in Terminal) =>
          (req'.state = "Admitted" /\ ~req'.tokenInspected)
     /\ \A p \in Procs :
          /\ RegisterStarts(p) =>
               (~req.tokenInspected /\ req.principal = NoPrincipal)
          /\ (Answers(p, "register") /\ arg[p].role = "ADMIN") =>
               /\ res'[p].status \in {201, 409}
               /\ res'[p].status = 409 =>
                    \E u \in users' : u.email = arg[p].email
               /\ res'[p].status = 201 =>
                    /\ res'[p].token.role = "ADMIN"
                    /\ \E u \in users' : /\ u.id = res'[p].token.sub
                                         /\ u.email = arg[p].email
                                         /\ u.role = "ADMIN"
     /\ (/\ req'.state \in Terminal
         /\ req'.route \in AdminOnlyRoutes
         /\ req'.header.kind = "jwt"
         /\ req'.header.token.role = "ADMIN"
         /\ ~req'.subjectGone
         /\ req'.authTime < req'.header.token.exp) =>
           (req'.state = "Admitted" /\ req'.handlerInvoked)
    ]_vars

\* an administrator registered without a token, and the token register
\* returned was admitted on DELETE /students/:id
C26_Witness ==
  /\ pc[1] = "done" /\ op[1] = "register" /\ res[1].status = 201
  /\ arg[1].role = "ADMIN"
  /\ req.state = "Admitted" /\ req.route = "DELETE /students/:id"
  /\ req.header.kind = "jwt" /\ req.header.token = res[1].token
  /\ req.principal.role = "ADMIN"

\* C29: every route of the resource modules declares required roles: POST,
\* PATCH and DELETE routes only ADMIN, GET routes ADMIN and at most also
\* TEACHER; and the handler of such a route is invoked only for a request
\* whose token was resolved to a principal that is not a STUDENT.
C29_ResourceRoutesRestricted ==
  /\ \A r \in ResourceRoutes :
       /\ r[3] # {}
       /\ r[1] \in {"POST", "PATCH", "DELETE"} => r[3] = {"ADMIN"}
       /\ r[1] = "GET" => ("ADMIN" \in r[3] /\ r[3] \subseteq {"ADMIN", "TEACHER"})
       /\ r[1] \in {"POST", "PATCH", "DELETE", "GET"}
  /\ (req.route \in ResourceRouteNames /\ req.handlerInvoked) =>
       /\ req.tokenInspected
       /\ req.principal # NoPrincipal
       /\ req.principal.role \in {"ADMIN", "TEACHER"}
  /\ (/\ req.route \in ResourceRouteNames /\ req.state \in Terminal
      /\ \/ req.header = NoHeader
         \/ req.principal # NoPrincipal /\ req.principal.role = "STUDENT") =>
       /\ ~req.handlerInvoked
       /\ req.state = IF req.header = NoHeader THEN "Unauthorized" ELSE "Forbidden"

\* a student's token was refused on a resource GET, and a request without
\* token on a resource route as well
C29_Witness ==
  /\ req.route = "GET /students/:id" /\ req.state = "Forbidden"
  /\ req.principal.role = "STUDENT" /\ ~req.handlerInvoked

\* ---- tokens of deleted identities ------------------------------------------
\* the token the student e0 was issued at a login before the behaviour starts
IssuedTokens == {generateToken(u.id, u.email, u.role) : u \in {v \in SeedUsers : v.email = "e0"}}

\* the state after e0 has logged in once: its token is in circulation
InitIssued ==
  /\ users = SeedUsers
  /\ students = SeedStudents
  /\ teachers = SeedTeachers
  /\ classrooms = {"c1"}
  /\ subjects = {}
  /\ assignments = {}
  /\ nextId = 5
  /\ tx = [p \in Procs |-> EmptyTx]
  /\ pc = [p \in Procs |-> "idle"]
  /\ op = [p \in Procs |-> "none"]
  /\ arg = [p \in Procs |-> NoArg]
  /\ loc = [p \in Procs |-> NoLoc]
  /\ res = [p \in Procs |-> NoRes]
  /\ now = 0
  /\ tokens = IssuedTokens
  /\ calls = 0
  /\ hist = [p \in Procs |-> NoHist]
  /\ req = NoReq
  /\ boot = Booted
  /\ dto = NoDto

\* the email and the student code of e0 are registered again, as a student or
\* as an administrator
ReissueBodies ==
  {<<"e0", "P2", "STUDENT", "s0", "c1">>, <<"e0", "P2", "ADMIN", NoCode, NoClass>>}

NextReissue ==
  \/ ReqStartOn({"me", "admin-test"}, TokenHeaders)
  \/ ReqPublicCheck
  \/ ReqAuthenticationCheck
  \/ ReqRoleCheck
  \/ AuthControllerGetCurrentUser
  \/ Tick
  \/ \E p \in Procs :
       \/ RegisterBegin(p, ReissueBodies)
       \/ RegisterCheckEmail(p)
       \/ RegisterCheckCode(p)
       \/ RegisterCheckClassroom(p)
       \/ RegisterSign(p)
       \/ StudentsRemoveBegin(p)
       \/ StudentsRemoveFind(p)
       \/ TxCreateUser(p)
       \/ TxCreateStudent(p)
       \/ TxDeleteStudent(p)
       \/ TxDeleteUser(p)
       \/ TxCommit(p)

SpecReissue == InitIssued /\ [][NextReissue]_vars

\* C28: a signed token is resolved to the identity whose id is its subject or
\* to none: once that identity is deleted the token is answered Unauthorized,
\* also when its email or student code has been registered again, because no
\* identity is ever created under the subject id of a token in circulation.
C28_DeletedTokenNeverRebinds ==
  [][/\ (req'.tokenInspected /\ req'.header.kind = "jwt") =>
          /\ req'.principal # NoPrincipal =>
               req'.principal.id = req'.header.token.sub
          /\ req'.subjectGone =>
               /\ req'.principal = NoPrincipal
               /\ req'.state = "Unauthorized"
               /\ ~req'.handlerInvoked
     /\ req'.handled => req'.observed = req'.header.token.sub
     /\ \A u \in users' \ users :
          /\ \A t \in tokens : t.sub # u.id
          /\ \A v \in users : v.id # u.id
    ]_vars

\* the token of the deleted e0 was refused before its expiry while another
\* identity held the email e0
C28_Witness ==
  /\ req.state = "Unauthorized" /\ req.header.kind = "jwt"
  /\ req.header.token \in IssuedTokens
  /\ req.authTime < req.header.token.exp
  /\ \E u \in users : u.email = req.header.token.email /\ u.id # req.header.token.sub
  /\ ~\E u \in users : u.id = req.header.token.sub

\* ---- classrooms and the students in them ------------------------------------
\* a student registers into c2, an administrator creates a student in c2 or
\* moves a student to c2, while c2 is deleted
RoomRegisterBodies == {<<"e1", "P1", "STUDENT", "s1", "c2">>}

RoomCreateBodies == {<<"e2", "P1", "s2", "c2">>}

RoomUpdateBodies == {<<NoCode, "c2">>}

NextRoom ==
  \E p \in Procs :
    \/ ClassroomsRemoveBegin(p)
    \/ ClassroomsRemoveFind(p)
    \/ ClassroomsRemoveDelete(p)
    \/ RegisterBegin(p, RoomRegisterBodies)
    \/ RegisterCheckEmail(p)
    \/ RegisterCheckCode(p)
    \/ RegisterCheckClassroom(p)
    \/ RegisterSign(p)
    \/ StudentsCreateBegin(p, RoomCreateBodies)
    \/ StudentsCreateCheckEmail(p)
    \/ StudentsCreateCheckCode(p)
    \/ StudentsCreateCheckClassroom(p)
    \/ StudentsUpdateBegin(p, RoomUpdateBodies)
    \/ StudentsUpdateFind(p)
    \/ StudentsUpdateCheckClassroom(p)
    \/ StudentsUpdateWrite(p)
    \/ TxCreateUser(p)
    \/ TxCreateStudent(p)
    \/ TxCommit(p)

SpecRoom == InitSchool /\ [][NextRoom]_vars

\* C30: every student row references a classroom that exists, whatever the
\* interleaving of ClassroomsService.remove with register, StudentsService
\* create and update: no classroom is deleted while a student references it
\* and no student is created in or moved into a deleted classroom.
C30_StudentsReferenceClassrooms ==
  \A s \in students : s.classroomId \in classrooms

\* a remove that had found the classroom empty was refused by the store
\* because a student had arrived in it meanwhile
C30_Witness ==
  \E p \in Procs :
    /\ op[p] = "cRemove" /\ pc[p] = "done"
    /\ res[p].status = 400 /\ res[p].message = FailureMessage("cRemove")
    /\ \E s \in students : s.classroomId = arg[p].classroomId

====
